---- MODULE Spec2Model ----
(***************************************************************************)
(* The planning core of agentz: PlanningOrchestrator.execute, the          *)
(* TaskRouter (execute_plan, _sort_tasks), the agent registry              *)
(* (get_agent_by_type) and the ResultAggregator.                           *)
(*                                                                         *)
(* A Python str is a sequence of tokens: a token is either one of the      *)
(* fixed literals of the source (written here in ASCII) or an opaque piece *)
(* of external text (a task description, an agent output, an exception's   *)
(* message).  Concatenation is \o.                                         *)
(*                                                                         *)
(* The coroutines are cut at their suspension points (the awaits on        *)
(* create_plan and on agent.run) and at the heads of their loops.          *)
(***************************************************************************)
EXTENDS Integers, Sequences, FiniteSets, TLC

VARIABLES
    pc,               \* position of the running coroutine
    entry,            \* the public operation called: "execute" | "execute_plan" | "aggregate"
    deps,             \* the deps argument
    max_iterations,   \* execute: argument
    iteration,        \* execute: local
    user_input,       \* execute: argument, reassigned when iterating
    planner_result,   \* execute: local
    plan,             \* execute: local / execute_plan: argument
    previous_plan,    \* execute: local
    task_results,     \* execute: local / aggregate: argument results
    final_result,     \* execute: local, what aggregate returned
    sorted_tasks,     \* execute_plan: local (zero-based indices into plan.subtasks)
    pos,              \* execute_plan: position of the for loop in sorted_tasks
    results,          \* execute_plan: local
    ret,              \* what the public operation handed to its caller
    log,              \* history of the calls made to external services and components
    execute_parallel, \* execute_plan: argument
    created,          \* module globals _code_agent, ...: how often each agent was created
    running,          \* the conversation whose coroutine holds the thread
    other             \* the frame of the other conversation, suspended

vars == <<pc, entry, deps, max_iterations, iteration, user_input, planner_result,
          plan, previous_plan, task_results, final_result, sorted_tasks, pos,
          results, ret, log, execute_parallel, created, running, other>>

-----------------------------------------------------------------------------
\* Bounds of the model.

MaxTasks == 2        \* subtasks of a plan given to execute_plan directly
MaxPriority == 1     \* priorities range over 0..MaxPriority
MaxDeps == 1         \* entries of one dependencies list
MaxIter == 3         \* max_iterations ranges over 0..MaxIter
OrchMaxTasks == 1    \* subtasks of a plan returned by the planning service
MaxResults == 2      \* TaskResults of a list given to aggregate directly
MaxCalls == 3        \* calls made on one aggregator
MaxMessages == 2     \* messages of a history given to the formatter directly
MaxParts == 2        \* parts of one such message

-----------------------------------------------------------------------------
\* models/planning.py

AgentEnum ==
    {"code_agent", "weather_agent", "search_agent", "general_agent",
     "context_agent", "default_agent"}

None == [kind |-> "None"]

\* a str held in an Optional[str] field
Some(s) == [kind |-> "str", s |-> s]

Detail(i) == "task " \o ToString(i)

\* A SubTask; priority and dependencies have the defaults 0 and [].
SubTask(details, agent, priority, dependencies) ==
    [task_details |-> details, assigned_agent |-> agent,
     priority |-> priority, dependencies |-> dependencies]

\* A Plan; is_greeting and requires_iteration default to False.
Plan(main, subtasks, greeting, iter) ==
    [main_task |-> main, subtasks |-> subtasks,
     is_greeting |-> greeting, requires_iteration |-> iter]

-----------------------------------------------------------------------------
\* The plans and deps the model draws its inputs from.  Nothing in the source
\* validates a dependencies list (List[int]): an entry may name the task
\* itself, form a cycle, repeat, or lie outside the list.

DepLists(vals, k) == UNION {[1..m -> vals] : m \in 0..k}

\* one (capability, priority, dependencies) choice per subtask
Attrs(agents, prios, vals, k) == agents \X prios \X DepLists(vals, k)

MkSubtasks(f) ==
    [i \in DOMAIN f |-> SubTask(<<Detail(i - 1)>>, f[i][1], f[i][2], f[i][3])]

MkPlan(f, greeting, iter) == Plan(<<"main">>, MkSubtasks(f), greeting, iter)

\* every priority and every in-range dependencies list (self, cyclic, repeated)
OrderAttrs(n) == Attrs({"general_agent"}, 0..MaxPriority, 0..(n - 1), MaxDeps)

\* dependencies that may also name the index len(subtasks)
RangeAttrs(n) == Attrs({"general_agent"}, {0}, 0..n, MaxDeps)

\* one task more and one entry more, so that an acyclic plan can repeat an index
DupAttrs(n) == Attrs({"general_agent"}, {0}, 0..(n - 1), MaxDeps + 1)

\* the members of a set of indices as a list, in ascending order
Ascending(S) ==
    [k \in 1..Cardinality(S) |-> CHOOSE x \in S : Cardinality({y \in S : y < x}) = k - 1]

\* every priority, and every count of dependency entries up to MaxDeps + 1
CountAttrs == Attrs({"general_agent"}, 0..MaxPriority, {0}, MaxDeps + 1)

\* one priority, and every set of in-range indices as the dependencies
SetAttrs(n) ==
    {"general_agent"} \X {0} \X {Ascending(S) : S \in SUBSET (0..(n - 1))}

\* every capability, default priority and dependencies
DispatchAttrs == Attrs(AgentEnum, {0}, {}, 0)

\* what the planning service returns: default subtasks, every flag
OrchAttrs == Attrs({"general_agent"}, {0}, {}, 0)

OrchPlans ==
    UNION { { MkPlan(f, g, r) : f \in [1..n -> OrchAttrs], g \in BOOLEAN, r \in BOOLEAN }
            : n \in 0..OrchMaxTasks }

\* deps: the Deps dataclass of specialized_agents.py has the one field client;
\* execute_plan reads deps.message_history, which only a caller-supplied object has.
DefaultDeps == [has_message_history |-> FALSE, message_history |-> <<>>]

\* a part of a ModelMessage: a UserPromptPart ("user"), a SystemPromptPart
\* ("system") or any other part ("other"), whose content stands for the text
\* the formatter extracts from it, chars being the length of that text
Part(kind, content, chars) == [kind |-> kind, content |-> content, chars |-> chars]

Histories ==
    {<<>>,
     << <<Part("system", "be helpful", 10)>> >>,
     << <<Part("system", "be helpful", 10), Part("user", "hello", 5)>>,
        <<Part("other", "hi there", 8)>> >>,
     << <<Part("user", "question", 8), Part("other", "long answer", 1001)>> >>}

\* the formatter called directly: the parts a message may be made of, and the
\* argument, which is Optional: None or a list of messages
FormatParts ==
    {Part("user", "hello", 5), Part("system", "be helpful", 10),
     Part("other", "hi there", 8), Part("other", "long answer", 1001)}

FormatMessages == UNION {[1..k -> FormatParts] : k \in 0..MaxParts}

HistoryArg(h) == [kind |-> "list", items |-> h]

DepsInputs ==
    {DefaultDeps} \cup
    {[has_message_history |-> TRUE, message_history |-> h] : h \in Histories}

\* aggregate called directly: main_task, and the TaskResults a caller may
\* build (a dataclass: any combination of agent_type, result, success, error)
MainTasks == {<<"main">>, <<"weather", " and ", "script">>}

ResultFields ==
    {"weather_agent", "code_agent"} \X {<<>>, <<"output a">>} \X BOOLEAN
        \X {None, Some(<<>>), Some(<<"timeout">>)}

MkResults(f) ==
    [i \in DOMAIN f |->
        [idx |-> i - 1,
         task |-> SubTask(<<Detail(i - 1)>>, f[i][1], 0, <<>>),
         result |-> f[i][2], agent_type |-> f[i][1],
         success |-> f[i][3], error |-> f[i][4]]]

Outputs == {<<"output a">>, <<"output b">>}   \* what agent.run(...).output may be
OrderOutputs == {<<"output a">>}   \* one output, where its text plays no part
Errors == {<<"boom">>}         \* str(e) of what an external call may raise
UserInputs == {<<"request">>}

-----------------------------------------------------------------------------
\* planning/specialized_agents.py

\* _agent_registry: the executor each registered capability is bound to
agent_registry ==
    [a \in {"code_agent", "weather_agent", "search_agent", "general_agent",
            "default_agent"} |->
        CASE a = "code_agent" -> "code"
          [] a = "weather_agent" -> "weather"
          [] a = "search_agent" -> "search"
          [] a = "general_agent" -> "general"
          [] a = "default_agent" -> "general"]

\* The lookup without its fallback: _agent_registry.get(agent_type).
get_agent_by_type_no_fallback(agent_type) ==
    IF agent_type \notin DOMAIN agent_registry
    THEN "None"
    ELSE agent_registry[agent_type]

\* get_agent_by_type: the registered executor, the general one otherwise
get_agent_by_type(agent_type) ==
    IF agent_type \notin DOMAIN agent_registry
    THEN "general"
    ELSE agent_registry[agent_type]

get_general_agent == "general"

\* the four agents the module can create
Executors == {"code", "weather", "search", "general"}

\* A getter without "if _x_agent is None": every call creates an agent.
GetAgentAlwaysCreates(c, agent) == [c EXCEPT ![agent] = @ + 1]

\* _get_code_agent, ...: "if _x_agent is None: _x_agent = _create_x_agent()"
GetAgent(c, agent) == IF c[agent] = 0 THEN [c EXCEPT ![agent] = 1] ELSE c

-----------------------------------------------------------------------------
\* planning/context_helper.py

RECURSIVE Join(_, _)
Join(sep, parts) ==
    IF parts = <<>> THEN <<>>
    ELSE IF Len(parts) = 1 THEN parts[1]
    ELSE parts[1] \o sep \o Join(sep, Tail(parts))

RECURSIVE SumChars(_)
SumChars(ps) == IF ps = <<>> THEN 0 ELSE ps[1].chars + SumChars(Tail(ps))

Contents(ps) == [k \in DOMAIN ps |-> <<ps[k].content>>]

IsUserPart(part) == part.kind = "user"
IsResponsePart(part) == part.kind = "other"

MaxResponseChars == 1000

\* the lines one message adds to formatted_parts, as turn number n
MessageLines(message, n) ==
    LET user_inputs == SelectSeq(message, IsUserPart)
        assistant_responses == SelectSeq(message, IsResponsePart)
        response_text == Join(<<"\n">>, Contents(assistant_responses))
        response_chars == SumChars(assistant_responses) + Len(assistant_responses) - 1
    IN  IF user_inputs = <<>> THEN <<>>
        ELSE << <<"Turn ", ToString(n), ":">>,
                <<"User: ">> \o Join(<<" ">>, Contents(user_inputs)),
                IF assistant_responses # <<>>
                THEN IF response_chars > MaxResponseChars
                     THEN <<"Assistant: ", "[:1000] of ">> \o response_text
                            \o <<"\n...(truncated)">>
                     ELSE <<"Assistant: ">> \o response_text
                ELSE <<"Assistant: (answered, content not extractable)">>,
                <<>> >>

RECURSIVE FormattedParts(_, _)
FormattedParts(message_history, turn_number) ==
    IF message_history = <<>> THEN <<>>
    ELSE LET lines == MessageLines(message_history[1], turn_number + 1)
         IN  lines \o FormattedParts(Tail(message_history),
                        IF lines = <<>> THEN turn_number ELSE turn_number + 1)

\* The formatter without its first test "if not message_history".
format_history_no_early_return(message_history) ==
    LET formatted_parts == FormattedParts(message_history, 0)
    IN  IF formatted_parts = <<>>
        THEN <<"History is empty or its format is not recognised.">>
        ELSE Join(<<"\n">>, formatted_parts)

format_history_for_context_agent(message_history) ==
    IF message_history = <<>>
    THEN <<"No history yet.">>
    ELSE LET formatted_parts == FormattedParts(message_history, 0)
         IN  IF formatted_parts = <<>>
             THEN <<"History is empty or its format is not recognised.">>
             ELSE Join(<<"\n">>, formatted_parts)

-----------------------------------------------------------------------------
\* planning/router.py

\* A TaskResult that records the capability of the executor that was resolved:
\* the general one for a capability without an executor of its own.
TaskResultOfExecutor(idx, task, result, success, error) ==
    [idx |-> idx, task |-> task, result |-> result,
     agent_type |-> IF get_agent_by_type(task.assigned_agent) = get_general_agent
                    THEN "general_agent"
                    ELSE task.assigned_agent,
     success |-> success, error |-> error]

\* TaskResult(task=task, result=..., agent_type=task.assigned_agent, ...)
TaskResult(idx, task, result, success, error) ==
    [idx |-> idx, task |-> task, result |-> result,
     agent_type |-> task.assigned_agent, success |-> success, error |-> error]

\* The key with the dependency count negated: more entries first.
SortKeyMoreDepsFirst(t) == <<0 - t.priority, 0 - Len(t.dependencies)>>

\* The key without the minus sign: ascending priority.
SortKeyAscending(t) == <<t.priority, Len(t.dependencies)>>

\* key=lambda t: (-t.priority, len(t.dependencies))
SortKey(t) == <<0 - t.priority, Len(t.dependencies)>>

KeyLess(a, b) == a[1] < b[1] \/ (a[1] = b[1] /\ a[2] < b[2])

\* A sort that is not stable: of the tasks with an equal key the later goes first.
RankLaterFirst(tasks, i) ==
    Cardinality({j \in 1..Len(tasks) :
        \/ KeyLess(SortKey(tasks[j]), SortKey(tasks[i]))
        \/ (~KeyLess(SortKey(tasks[i]), SortKey(tasks[j])) /\ j > i)})

\* sorted() is stable: a task goes after the tasks with a smaller key and
\* after the earlier tasks with an equal key.
Rank(tasks, i) ==
    Cardinality({j \in 1..Len(tasks) :
        \/ KeyLess(SortKey(tasks[j]), SortKey(tasks[i]))
        \/ (~KeyLess(SortKey(tasks[i]), SortKey(tasks[j])) /\ j < i)})

\* the sorted list, as the zero-based original indices of its tasks
sort_tasks(tasks) ==
    [k \in 1..Len(tasks) |->
        (CHOOSE i \in 1..Len(tasks) : Rank(tasks, i) = k - 1) - 1]

TaskAt(i) == plan.subtasks[i + 1]

DispatchText(task) ==
    IF task.assigned_agent = "context_agent"
    THEN task.task_details \o <<"\n\n", "History:", "\n">>
            \o format_history_for_context_agent(deps.message_history)
    ELSE task.task_details

TaskErrorMsg(e) == <<"Task execution failed: ">> \o e

AttributeError == <<"'Deps' object has no attribute 'message_history'">>

-----------------------------------------------------------------------------
\* planning/aggregator.py

AgentTitle(a) ==
    CASE a = "code_agent" -> "Code Agent"
      [] a = "weather_agent" -> "Weather Agent"
      [] a = "search_agent" -> "Search Agent"
      [] a = "general_agent" -> "General Agent"
      [] a = "context_agent" -> "Context Agent"
      [] a = "default_agent" -> "Default Agent"

\* A count kept on the aggregator: the successes of the call before are added.
SuccessCountCumulative(rs) ==
    Cardinality({i \in 1..Len(rs) : rs[i].success})
        + Cardinality({i \in 1..Len(task_results) : task_results[i].success})

\* A count that takes every result for a success.
SuccessCountAll(rs) == Len(rs)

\* sum(1 for r in results if r.success)
SuccessCount(rs) == Cardinality({i \in 1..Len(rs) : rs[i].success})

\* The block of a result without the line of its output.
ResultPartsNoOutput(rs, i) ==
    LET r == rs[i]
        head == <<"### ", ToString(i), ". [", AgentTitle(r.agent_type), "] ">>
                    \o r.task.task_details
    IN  IF r.success
        THEN <<head, <<"[ok] executed">>>>
        ELSE IF r.error # None /\ r.error.s # <<>>
             THEN <<head, <<"[x] failed">>, <<"Error: ">> \o r.error.s \o <<"\n">>>>
             ELSE <<head, <<"[x] failed">>, <<"\n">>>>

\* the lines aggregate appends for the i-th result
ResultParts(rs, i) ==
    LET r == rs[i]
        head == <<"### ", ToString(i), ". [", AgentTitle(r.agent_type), "] ">>
                    \o r.task.task_details
    IN  IF r.success
        THEN <<head, <<"[ok] executed">>, r.result \o <<"\n">>>>
        ELSE IF r.error # None /\ r.error.s # <<>>
             THEN <<head, <<"[x] failed">>, <<"Error: ">> \o r.error.s \o <<"\n">>>>
             ELSE <<head, <<"[x] failed">>, <<"\n">>>>

\* The blocks in the order of a loop over reversed(results).
AllResultPartsReversed(rs, i) ==
    LET parts[k \in 0..Len(rs)] ==
            IF k < i THEN <<>> ELSE ResultParts(rs, k) \o parts[k - 1]
    IN  parts[Len(rs)]

RECURSIVE AllResultParts(_, _)
AllResultParts(rs, i) ==
    IF i > Len(rs) THEN <<>>
    ELSE ResultParts(rs, i) \o AllResultParts(rs, i + 1)

\* aggregate without "if not results".
aggregate_no_empty_check(main_task, rs) ==
    LET success_count == SuccessCount(rs)
        fail_count == Len(rs) - success_count
        summary ==
            IF fail_count > 0
            THEN <<"\n---\n**Summary**: ", ToString(Len(rs)), " subtasks, ",
                   ToString(success_count), " succeeded, ",
                   ToString(fail_count), " failed.">>
            ELSE <<"\n---\n**Summary**: all ", ToString(Len(rs)),
                   " subtasks succeeded.">>
    IN  Join(<<"\n">>, <<<<"## Task: ">> \o main_task \o <<"\n">>>>
                           \o AllResultParts(rs, 1)
                           \o <<summary>>)

aggregate(main_task, rs) ==
    IF rs = <<>>
    THEN <<"Task '">> \o main_task \o <<"' has no subtasks to execute.">>
    ELSE LET success_count == SuccessCount(rs)
             fail_count == Len(rs) - success_count
             summary ==
                IF fail_count > 0
                THEN <<"\n---\n**Summary**: ", ToString(Len(rs)), " subtasks, ",
                       ToString(success_count), " succeeded, ",
                       ToString(fail_count), " failed.">>
                ELSE <<"\n---\n**Summary**: all ", ToString(Len(rs)),
                       " subtasks succeeded.">>
         IN  Join(<<"\n">>, <<<<"## Task: ">> \o main_task \o <<"\n">>>>
                                \o AllResultParts(rs, 1)
                                \o <<summary>>)

-----------------------------------------------------------------------------
\* planning/planner.py

\* "return result.output, result": what the caller of create_plan receives
create_plan(output, result) == [kind |-> "tuple", items |-> <<output, result>>]

-----------------------------------------------------------------------------
\* planning/orchestrator.py

FlowErrorMsg(e) == <<"Error in the planning flow: ">> \o e

Completed == <<"Completed">>

\* The next input built from the result alone: the earlier input is dropped.
IterationInputReplaces(input, result) ==
    <<"Current result: ">> \o result
          \o <<"\n", "Please adjust the plan accordingly.">>

\* f"{user_input}\n\n<current result:>{final_result}\n<please adjust the plan>"
IterationInput(input, result) ==
    input \o <<"\n\n", "Current result: ">> \o result
          \o <<"\n", "Please adjust the plan accordingly.">>

Return(value) == [kind |-> "return", value |-> value]

Event(ev, idx, exec, text) ==
    [ev |-> ev, round |-> iteration, idx |-> idx, exec |-> exec, text |-> text]

\* the frame of a coroutine that has not been called yet
InitFrame ==
    [pc |-> "idle", entry |-> "none", deps |-> DefaultDeps, max_iterations |-> 0,
     iteration |-> 0, user_input |-> <<>>, planner_result |-> None, plan |-> None,
     previous_plan |-> None, task_results |-> <<>>, final_result |-> <<>>,
     sorted_tasks |-> <<>>, pos |-> 1, results |-> <<>>, ret |-> None, log |-> <<>>,
     execute_parallel |-> FALSE]

-----------------------------------------------------------------------------
Init ==
    /\ pc = "idle"
    /\ entry = "none"
    /\ deps = DefaultDeps
    /\ max_iterations = 0
    /\ iteration = 0
    /\ user_input = <<>>
    /\ planner_result = None
    /\ plan = None
    /\ previous_plan = None
    /\ task_results = <<>>
    /\ final_result = <<>>
    /\ sorted_tasks = <<>>
    /\ pos = 1
    /\ results = <<>>
    /\ ret = None
    /\ log = <<>>
    /\ execute_parallel = FALSE
    /\ created = [a \in Executors |-> 0]
    /\ running = 1
    /\ other = InitFrame

\* execute_plan without "if plan.is_greeting: return []".
EnterExecutePlanNoGreetingCheck(p, lg) ==
    /\ plan' = p
    /\ IF p.subtasks = <<>>
       THEN /\ UNCHANGED <<sorted_tasks, pos, results>>
            /\ log' = lg
            /\ IF entry' = "execute"
               THEN /\ task_results' = <<>>
                    /\ pc' = "aggregate"
                    /\ ret' = ret
               ELSE /\ ret' = Return(<<>>)
                    /\ pc' = "done"
                    /\ UNCHANGED task_results
       ELSE /\ sorted_tasks' = sort_tasks(p.subtasks)
            /\ results' = <<>>
            /\ pos' = 1
            /\ log' = lg
            /\ pc' = "dispatch"
            /\ UNCHANGED <<task_results, ret>>

\* plan.subtasks.sort(key=...) in place of sorted(...): the plan is reordered.
EnterExecutePlanSortsInPlace(p, lg) ==
    /\ plan' = [p EXCEPT !.subtasks =
                    [k \in 1..Len(p.subtasks) |-> p.subtasks[sort_tasks(p.subtasks)[k] + 1]]]
    /\ IF p.is_greeting \/ p.subtasks = <<>>
       THEN /\ UNCHANGED <<sorted_tasks, pos, results>>
            /\ log' = lg
            /\ IF entry' = "execute"
               THEN /\ task_results' = <<>>
                    /\ pc' = "aggregate"
                    /\ ret' = ret
               ELSE /\ ret' = Return(<<>>)
                    /\ pc' = "done"
                    /\ UNCHANGED task_results
       ELSE /\ sorted_tasks' = [k \in 1..Len(p.subtasks) |-> k - 1]
            /\ results' = <<>>
            /\ pos' = 1
            /\ log' = lg
            /\ pc' = "dispatch"
            /\ UNCHANGED <<task_results, ret>>

\* execute_plan that gives up when execute_parallel is set: "not supported yet".
EnterExecutePlanParallelUnsupported(p, lg) ==
    /\ plan' = p
    /\ IF execute_parallel' \/ p.is_greeting \/ p.subtasks = <<>>
       THEN /\ UNCHANGED <<sorted_tasks, pos, results>>
            /\ log' = lg
            /\ IF entry' = "execute"
               THEN /\ task_results' = <<>>
                    /\ pc' = "aggregate"
                    /\ ret' = ret
               ELSE /\ ret' = Return(<<>>)
                    /\ pc' = "done"
                    /\ UNCHANGED task_results
       ELSE /\ sorted_tasks' = sort_tasks(p.subtasks)
            /\ results' = <<>>
            /\ pos' = 1
            /\ log' = lg
            /\ pc' = "dispatch"
            /\ UNCHANGED <<task_results, ret>>

\* execute_plan without "results = []": the list of the call before is kept.
EnterExecutePlanKeepsResults(p, lg) ==
    /\ plan' = p
    /\ IF p.is_greeting \/ p.subtasks = <<>>
       THEN /\ UNCHANGED <<sorted_tasks, pos, results>>
            /\ log' = lg
            /\ IF entry' = "execute"
               THEN /\ task_results' = <<>>
                    /\ pc' = "aggregate"
                    /\ ret' = ret
               ELSE /\ ret' = Return(<<>>)
                    /\ pc' = "done"
                    /\ UNCHANGED task_results
       ELSE /\ sorted_tasks' = sort_tasks(p.subtasks)
            /\ results' = results
            /\ pos' = 1
            /\ log' = lg
            /\ pc' = "dispatch"
            /\ UNCHANGED <<task_results, ret>>

\* the body of execute_plan up to its for loop, for plan p
EnterExecutePlan(p, lg) ==
    /\ plan' = p
    /\ IF p.is_greeting \/ p.subtasks = <<>>
       THEN /\ UNCHANGED <<sorted_tasks, pos, results>>
            /\ log' = lg
            /\ IF entry' = "execute"
               THEN /\ task_results' = <<>>
                    /\ pc' = "aggregate"
                    /\ ret' = ret
               ELSE /\ ret' = Return(<<>>)
                    /\ pc' = "done"
                    /\ UNCHANGED task_results
       ELSE /\ sorted_tasks' = sort_tasks(p.subtasks)
            /\ results' = <<>>
            /\ pos' = 1
            /\ log' = lg
            /\ pc' = "dispatch"
            /\ UNCHANGED <<task_results, ret>>

\* TaskRouter.execute_plan called by a client of the router
ExecutePlanCall(p, d, par) ==
    /\ pc = "idle"
    /\ execute_parallel' = par
    /\ UNCHANGED <<created, running, other>>
    /\ entry' = "execute_plan"
    /\ deps' = d
    /\ EnterExecutePlan(p, Append(log, Event("execute_plan", -1, "", p.subtasks)))
    /\ UNCHANGED <<max_iterations, iteration, user_input, planner_result,
                   previous_plan, final_result>>

\* The loop with agent.run started as a task of its own and not awaited: the
\* next task starts while the executor of this one is still running.
DispatchNoAwait ==
    /\ pc = "dispatch"
    /\ IF pos > Len(sorted_tasks)
       THEN \* return results
            /\ IF entry = "execute"
               THEN /\ task_results' = results
                    /\ pc' = "aggregate"
                    /\ ret' = ret
               ELSE /\ ret' = Return(results)
                    /\ pc' = "done"
                    /\ UNCHANGED task_results
            /\ UNCHANGED <<results, pos, log, created>>
       ELSE LET idx == sorted_tasks[pos]
                task == TaskAt(idx)
                agent == get_agent_by_type(task.assigned_agent)
            IN  /\ created' = GetAgent(created, agent)
                /\ IF task.assigned_agent = "context_agent" /\ ~deps.has_message_history
                   THEN \* deps.message_history raises inside the try
                        /\ results' = Append(results,
                               TaskResult(idx, task, <<>>, FALSE,
                                          Some(TaskErrorMsg(AttributeError))))
                        /\ pos' = pos + 1
                        /\ UNCHANGED <<pc, log, task_results, ret>>
                   ELSE /\ log' = Append(log, Event("run", idx, agent, DispatchText(task)))
                        /\ pos' = pos + 1
                        /\ UNCHANGED <<pc, results, task_results, ret>>
    /\ UNCHANGED <<entry, deps, max_iterations, iteration, user_input, planner_result,
                   plan, previous_plan, final_result, sorted_tasks,
                   execute_parallel, running, other>>

\* execute_plan: the head of "for task in sorted_tasks" and the body up to
\* the await on agent.run
Dispatch ==
    /\ pc = "dispatch"
    /\ IF pos > Len(sorted_tasks)
       THEN \* return results
            /\ IF entry = "execute"
               THEN /\ task_results' = results
                    /\ pc' = "aggregate"
                    /\ ret' = ret
               ELSE /\ ret' = Return(results)
                    /\ pc' = "done"
                    /\ UNCHANGED task_results
            /\ UNCHANGED <<results, pos, log, created>>
       ELSE LET idx == sorted_tasks[pos]
                task == TaskAt(idx)
                agent == get_agent_by_type(task.assigned_agent)
            IN  /\ created' = GetAgent(created, agent)
                /\ IF task.assigned_agent = "context_agent" /\ ~deps.has_message_history
                   THEN \* deps.message_history raises inside the try
                        /\ results' = Append(results,
                               TaskResult(idx, task, <<>>, FALSE,
                                          Some(TaskErrorMsg(AttributeError))))
                        /\ pos' = pos + 1
                        /\ UNCHANGED <<pc, log, task_results, ret>>
                   ELSE /\ log' = Append(log, Event("run", idx, agent, DispatchText(task)))
                        /\ pc' = "await_task"
                        /\ UNCHANGED <<results, pos, task_results, ret>>
    /\ UNCHANGED <<entry, deps, max_iterations, iteration, user_input, planner_result,
                   plan, previous_plan, final_result, sorted_tasks,
                   execute_parallel, running, other>>

\* A success recorded with the error text of an earlier failure.
TaskReturnsKeepsError(out) ==
    /\ pc = "await_task"
    /\ UNCHANGED <<execute_parallel, created, running, other>>
    /\ LET idx == sorted_tasks[pos]
           error == IF results # <<>> THEN results[Len(results)].error ELSE None
       IN  /\ results' = Append(results, TaskResult(idx, TaskAt(idx), out, TRUE, error))
           /\ log' = Append(log, Event("returned", idx, "", out))
    /\ pos' = pos + 1
    /\ pc' = "dispatch"
    /\ UNCHANGED <<entry, deps, max_iterations, iteration, user_input, planner_result,
                   plan, previous_plan, task_results, final_result, sorted_tasks,
                   ret>>

\* agent.run returned: results.append(TaskResult(..., success=True))
TaskReturns(out) ==
    /\ pc = "await_task"
    /\ UNCHANGED <<execute_parallel, created, running, other>>
    /\ LET idx == sorted_tasks[pos]
       IN  /\ results' = Append(results, TaskResult(idx, TaskAt(idx), out, TRUE, None))
           /\ log' = Append(log, Event("returned", idx, "", out))
    /\ pos' = pos + 1
    /\ pc' = "dispatch"
    /\ UNCHANGED <<entry, deps, max_iterations, iteration, user_input, planner_result,
                   plan, previous_plan, task_results, final_result, sorted_tasks,
                   ret>>

\* A failure after which the same task is tried again: the loop does not move on.
TaskFailsRetries(e) ==
    /\ pc = "await_task"
    /\ UNCHANGED <<execute_parallel, created, running, other>>
    /\ log' = Append(log, Event("raised", sorted_tasks[pos], "", e))
    /\ pc' = "dispatch"
    /\ UNCHANGED <<entry, deps, max_iterations, iteration, user_input, planner_result,
                   plan, previous_plan, task_results, final_result, sorted_tasks,
                   pos, results, ret>>

\* A failure that is swallowed without a TaskResult.
TaskFailsUnrecorded(e) ==
    /\ pc = "await_task"
    /\ UNCHANGED <<execute_parallel, created, running, other>>
    /\ log' = Append(log, Event("raised", sorted_tasks[pos], "", e))
    /\ pos' = pos + 1
    /\ pc' = "dispatch"
    /\ UNCHANGED <<entry, deps, max_iterations, iteration, user_input, planner_result,
                   plan, previous_plan, task_results, final_result, sorted_tasks,
                   results, ret>>

\* A failure that leaves execute_plan: no try around agent.run.
TaskFailsPropagates(e) ==
    /\ pc = "await_task"
    /\ UNCHANGED <<execute_parallel, created, running, other>>
    /\ log' = Append(log, Event("raised", sorted_tasks[pos], "", e))
    /\ IF entry = "execute"
       THEN ret' = Return(<<<<"Error in the planning flow: ">> \o e, planner_result>>)
       ELSE ret' = [kind |-> "raise", exc |-> e]
    /\ pc' = "done"
    /\ UNCHANGED <<entry, deps, max_iterations, iteration, user_input, planner_result,
                   plan, previous_plan, task_results, final_result, sorted_tasks,
                   pos, results>>

\* agent.run raised: except Exception, the failure is recorded and the loop goes on
TaskFails(e) ==
    /\ pc = "await_task"
    /\ UNCHANGED <<execute_parallel, created, running, other>>
    /\ LET idx == sorted_tasks[pos]
       IN  /\ results' = Append(results,
                    TaskResult(idx, TaskAt(idx), <<>>, FALSE, Some(TaskErrorMsg(e))))
           /\ log' = Append(log, Event("raised", idx, "", e))
    /\ pos' = pos + 1
    /\ pc' = "dispatch"
    /\ UNCHANGED <<entry, deps, max_iterations, iteration, user_input, planner_result,
                   plan, previous_plan, task_results, final_result, sorted_tasks,
                   ret>>

\* PlanningOrchestrator.execute is called
Execute(input, d, mi) ==
    /\ pc = "idle"
    /\ UNCHANGED <<execute_parallel, created, running, other>>
    /\ entry' = "execute"
    /\ deps' = d
    /\ user_input' = input
    /\ max_iterations' = mi
    /\ iteration' = 0
    /\ previous_plan' = None
    /\ planner_result' = None
    /\ pc' = "loop"
    /\ UNCHANGED <<plan, task_results, final_result, sorted_tasks, pos, results,
                   ret, log>>

\* The loop without "iteration += 1".
LoopHeadNoIncrement ==
    /\ pc = "loop"
    /\ UNCHANGED <<execute_parallel, created, running, other>>
    /\ IF iteration < max_iterations
       THEN /\ log' = Append(log, Event("create_plan", -1, "planner", user_input))
            /\ pc' = "await_plan"
            /\ ret' = ret
       ELSE /\ ret' = Return(<<Completed, planner_result>>)
            /\ pc' = "done"
            /\ log' = log
    /\ UNCHANGED <<entry, deps, max_iterations, iteration, user_input, planner_result,
                   plan, previous_plan, task_results, final_result, sorted_tasks, pos,
                   results>>

\* The loop with its test at the end of the body: the first round is run
\* whatever max_iterations is.
LoopHeadTestsAfter ==
    /\ pc = "loop"
    /\ UNCHANGED <<execute_parallel, created, running, other>>
    /\ IF iteration < max_iterations \/ iteration = 0
       THEN /\ iteration' = iteration + 1
            /\ log' = Append(log,
                    [Event("create_plan", -1, "planner", user_input)
                        EXCEPT !.round = iteration + 1])
            /\ pc' = "await_plan"
            /\ ret' = ret
       ELSE /\ ret' = Return(<<Completed, planner_result>>)
            /\ pc' = "done"
            /\ UNCHANGED <<iteration, log>>
    /\ UNCHANGED <<entry, deps, max_iterations, user_input, planner_result, plan,
                   previous_plan, task_results, final_result, sorted_tasks, pos,
                   results>>

\* "while iteration < max_iterations": the next round calls create_plan; past
\* the loop the fixed completion text is returned
LoopHead ==
    /\ pc = "loop"
    /\ UNCHANGED <<execute_parallel, created, running, other>>
    /\ IF iteration < max_iterations
       THEN /\ iteration' = iteration + 1
            /\ log' = Append(log,
                    [Event("create_plan", -1, "planner", user_input)
                        EXCEPT !.round = iteration + 1])
            /\ pc' = "await_plan"
            /\ ret' = ret
       ELSE /\ ret' = Return(<<Completed, planner_result>>)
            /\ pc' = "done"
            /\ UNCHANGED <<iteration, log>>
    /\ UNCHANGED <<entry, deps, max_iterations, user_input, planner_result, plan,
                   previous_plan, task_results, final_result, sorted_tasks, pos,
                   results>>

\* The orchestrator without its "if plan.is_greeting" branch.
CreatePlanReturnsNoGreeting(p) ==
    /\ pc = "await_plan"
    /\ execute_parallel' = FALSE
    /\ UNCHANGED <<created, running, other>>
    /\ planner_result' = [kind |-> "AgentRunResult", call |-> iteration]
    /\ entry' = entry
    /\ EnterExecutePlan(p, Append(log, Event("execute_plan", -1, "", p.subtasks)))
    /\ UNCHANGED <<deps, max_iterations, iteration, user_input, previous_plan,
                   final_result>>

\* create_plan returned (plan, planner_result)
CreatePlanReturns(p) ==
    /\ pc = "await_plan"
    /\ planner_result' = [kind |-> "AgentRunResult", call |-> iteration]
    /\ entry' = entry
    /\ IF p.is_greeting
       THEN \* _handle_greeting: general_agent.run(plan.main_task)
            /\ plan' = p
            /\ created' = GetAgent(created, get_general_agent)
            /\ log' = Append(log, Event("run_greeting", -1, get_general_agent, p.main_task))
            /\ pc' = "await_greeting"
            /\ UNCHANGED <<task_results, sorted_tasks, pos, results, ret, execute_parallel>>
       ELSE \* self.router.execute_plan(plan, deps=deps)
            /\ execute_parallel' = FALSE
            /\ created' = created
            /\ EnterExecutePlan(p, Append(log, Event("execute_plan", -1, "", p.subtasks)))
    /\ UNCHANGED <<running, other>>
    /\ UNCHANGED <<deps, max_iterations, iteration, user_input, previous_plan,
                   final_result>>

\* No except clause: the exception leaves execute.
CatchExceptionMissing(e) ==
    /\ ret' = [kind |-> "raise", exc |-> e]
    /\ pc' = "done"

\* The except clause that hands out what was aggregated so far before the
\* error text.
CatchExceptionKeepsResult(e) ==
    /\ ret' = Return(<<final_result \o <<"\n">> \o FlowErrorMsg(e), planner_result>>)
    /\ pc' = "done"

\* The except clause that returns None for the trace, whatever was planned.
CatchExceptionDropsTrace(e) ==
    /\ ret' = Return(<<FlowErrorMsg(e), None>>)
    /\ pc' = "done"

\* the except clause of execute
CatchException(e) ==
    /\ ret' = Return(<<FlowErrorMsg(e), planner_result>>)
    /\ pc' = "done"

\* A failed planning call that is retried: "continue" in the except clause.
CreatePlanFailsRetries(e) ==
    /\ pc = "await_plan"
    /\ UNCHANGED <<execute_parallel, created, running, other>>
    /\ log' = Append(log, Event("plan_raised", -1, "planner", e))
    /\ pc' = "loop"
    /\ UNCHANGED <<entry, deps, max_iterations, iteration, user_input, planner_result,
                   plan, previous_plan, task_results, final_result, sorted_tasks,
                   pos, results, ret>>

\* create_plan raised
CreatePlanFails(e) ==
    /\ pc = "await_plan"
    /\ UNCHANGED <<execute_parallel, created, running, other>>
    /\ CatchException(e)
    /\ log' = Append(log, Event("plan_raised", -1, "planner", e))
    /\ UNCHANGED <<entry, deps, max_iterations, iteration, user_input, planner_result,
                   plan, previous_plan, task_results, final_result, sorted_tasks,
                   pos, results>>

\* _handle_greeting that returns no text: the output of the run is dropped.
GreetingReturnsNoOutput(out) ==
    /\ pc = "await_greeting"
    /\ UNCHANGED <<execute_parallel, created, running, other>>
    /\ ret' = Return(<<<<>>, planner_result>>)
    /\ pc' = "done"
    /\ log' = Append(log, Event("greeting_returned", -1, get_general_agent, out))
    /\ UNCHANGED <<entry, deps, max_iterations, iteration, user_input, planner_result,
                   plan, previous_plan, task_results, final_result, sorted_tasks,
                   pos, results>>

\* the general agent answered the greeting: return greeting_result, planner_result
GreetingReturns(out) ==
    /\ pc = "await_greeting"
    /\ UNCHANGED <<execute_parallel, created, running, other>>
    /\ ret' = Return(<<out, planner_result>>)
    /\ pc' = "done"
    /\ log' = Append(log, Event("greeting_returned", -1, get_general_agent, out))
    /\ UNCHANGED <<entry, deps, max_iterations, iteration, user_input, planner_result,
                   plan, previous_plan, task_results, final_result, sorted_tasks,
                   pos, results>>

\* the general agent raised while answering the greeting
GreetingFails(e) ==
    /\ pc = "await_greeting"
    /\ UNCHANGED <<execute_parallel, created, running, other>>
    /\ CatchException(e)
    /\ log' = Append(log, Event("greeting_raised", -1, get_general_agent, e))
    /\ UNCHANGED <<entry, deps, max_iterations, iteration, user_input, planner_result,
                   plan, previous_plan, task_results, final_result, sorted_tasks,
                   pos, results>>

\* The test that ends the loop without "iteration >= max_iterations".
ShouldReturnIgnoresBudget == ~plan.requires_iteration

\* "if not plan.requires_iteration or iteration >= max_iterations"
ShouldReturn == ~plan.requires_iteration \/ iteration >= max_iterations

\* The decision to iterate without "not plan.requires_iteration".
AggregateAlwaysIterates ==
    /\ pc = "aggregate"
    /\ UNCHANGED <<execute_parallel, created, running, other>>
    /\ final_result' = aggregate(plan.main_task, task_results)
    /\ log' = Append(log, Event("aggregate", -1, "", plan.main_task))
    /\ IF iteration >= max_iterations
       THEN /\ ret' = Return(<<final_result', planner_result>>)
            /\ pc' = "done"
            /\ UNCHANGED <<user_input, previous_plan>>
       ELSE /\ user_input' = IterationInput(user_input, final_result')
            /\ previous_plan' = plan
            /\ pc' = "loop"
            /\ ret' = ret
    /\ UNCHANGED <<entry, deps, max_iterations, iteration, planner_result, plan,
                   task_results, sorted_tasks, pos, results>>

\* aggregator.aggregate(...) and the decision to iterate
Aggregate ==
    /\ pc = "aggregate"
    /\ UNCHANGED <<execute_parallel, created, running, other>>
    /\ final_result' = aggregate(plan.main_task, task_results)
    /\ log' = Append(log, Event("aggregate", -1, "", plan.main_task))
    /\ IF ShouldReturn
       THEN /\ ret' = Return(<<final_result', planner_result>>)
            /\ pc' = "done"
            /\ UNCHANGED <<user_input, previous_plan>>
       ELSE /\ user_input' = IterationInput(user_input, final_result')
            /\ previous_plan' = plan
            /\ pc' = "loop"
            /\ ret' = ret
    /\ UNCHANGED <<entry, deps, max_iterations, iteration, planner_result, plan,
                   task_results, sorted_tasks, pos, results>>

-----------------------------------------------------------------------------
\* One call of PlanningOrchestrator.execute.
Next ==
    \/ \E input \in UserInputs, mi \in 0..MaxIter : Execute(input, DefaultDeps, mi)
    \/ LoopHead
    \/ \E p \in OrchPlans : CreatePlanReturns(p)
    \/ \E e \in Errors : CreatePlanFails(e)
    \/ \E out \in Outputs : GreetingReturns(out)
    \/ \E e \in Errors : GreetingFails(e)
    \/ Dispatch
    \/ \E out \in Outputs : TaskReturns(out)
    \/ \E e \in Errors : TaskFails(e)
    \/ Aggregate

Spec == Init /\ [][Next]_vars

\* One call of PlanningOrchestrator.execute with any int for max_iterations,
\* a negative one too.
NextBudget ==
    \/ \E input \in UserInputs, mi \in (0 - MaxIter)..MaxIter : Execute(input, DefaultDeps, mi)
    \/ LoopHead
    \/ \E p \in OrchPlans : CreatePlanReturns(p)
    \/ \E e \in Errors : CreatePlanFails(e)
    \/ \E out \in Outputs : GreetingReturns(out)
    \/ \E e \in Errors : GreetingFails(e)
    \/ Dispatch
    \/ \E out \in Outputs : TaskReturns(out)
    \/ \E e \in Errors : TaskFails(e)
    \/ Aggregate

SpecBudget == Init /\ [][NextBudget]_vars

\* a step of the call once it is made: a step of the coroutine itself
\* (LoopHead, Dispatch, Aggregate) or the end of the call it awaits
Progress ==
    \/ LoopHead
    \/ \E p \in OrchPlans : CreatePlanReturns(p)
    \/ \E e \in Errors : CreatePlanFails(e)
    \/ \E out \in OrderOutputs : GreetingReturns(out)
    \/ \E e \in Errors : GreetingFails(e)
    \/ Dispatch
    \/ \E out \in OrderOutputs : TaskReturns(out)
    \/ \E e \in Errors : TaskFails(e)
    \/ Aggregate

NextLive ==
    \/ \E input \in UserInputs, mi \in 0..MaxIter : Execute(input, DefaultDeps, mi)
    \/ Progress

\* One call of execute when every awaited call comes back (it returns or it
\* raises) and the coroutine is run whenever it can go on.  The call has one
\* thread of control, so at most one kind of step is possible at a time.
Fairness == WF_vars(Progress)

SpecLive == Init /\ [][NextLive]_vars /\ Fairness

\* TaskRouter._sort_tasks called with the list tasks
SortCall(tasks) ==
    /\ pc = "idle"
    /\ entry' = "_sort_tasks"
    /\ sorted_tasks' = sort_tasks(tasks)
    /\ log' = Append(log, Event("_sort_tasks", -1, "", tasks))
    /\ ret' = Return(sorted_tasks')
    /\ pc' = "done"
    /\ UNCHANGED <<deps, max_iterations, iteration, user_input, planner_result, plan,
                   previous_plan, task_results, final_result, pos, results,
                   execute_parallel, created, running, other>>

\* One call of _sort_tasks, on lists of up to MaxTasks + 1 subtasks.
NextSort ==
    /\ pc = "idle"
    /\ \/ \E n \in 0..(MaxTasks + 1) : \E f \in [1..n -> CountAttrs] :
            SortCall(MkSubtasks(f))
       \/ \E n \in 0..(MaxTasks + 1) : \E f \in [1..n -> SetAttrs(n)] :
            SortCall(MkSubtasks(f))

SpecSort == Init /\ [][NextSort]_vars

\* One call of TaskRouter.execute_plan, by a client of the router.
RouterCall ==
    /\ pc = "idle"
    /\ \/ \E n \in 0..MaxTasks : \E f \in [1..n -> OrderAttrs(n)] :
            ExecutePlanCall(MkPlan(f, FALSE, FALSE), DefaultDeps, FALSE)
       \/ \E n \in 0..MaxTasks : \E f \in [1..n -> RangeAttrs(n)] :
            ExecutePlanCall(MkPlan(f, FALSE, FALSE), DefaultDeps, FALSE)
       \/ \E n \in 0..MaxTasks : \E f \in [1..n -> DispatchAttrs], d \in DepsInputs :
            ExecutePlanCall(MkPlan(f, FALSE, FALSE), d, FALSE)
       \/ \E p \in OrchPlans : ExecutePlanCall(p, DefaultDeps, FALSE)

NextRouter ==
    \/ RouterCall
    \/ Dispatch
    \/ \E out \in Outputs : TaskReturns(out)
    \/ \E e \in Errors : TaskFails(e)

SpecRouter == Init /\ [][NextRouter]_vars

\* Two calls of PlanningOrchestrator.execute in one event loop.  The variables
\* hold the frame of the coroutine that runs, other holds the frame of the one
\* that waits; created (the module globals of specialized_agents.py) belongs
\* to neither.
Frame ==
    [pc |-> pc, entry |-> entry, deps |-> deps, max_iterations |-> max_iterations,
     iteration |-> iteration, user_input |-> user_input,
     planner_result |-> planner_result, plan |-> plan,
     previous_plan |-> previous_plan, task_results |-> task_results,
     final_result |-> final_result, sorted_tasks |-> sorted_tasks, pos |-> pos,
     results |-> results, ret |-> ret, log |-> log,
     execute_parallel |-> execute_parallel]

\* the places a coroutine can be left at: before its call, at an await, after
\* its return
Suspended == {"idle", "await_plan", "await_greeting", "await_task", "done"}

Resume(f) ==
    /\ pc' = f.pc
    /\ entry' = f.entry
    /\ deps' = f.deps
    /\ max_iterations' = f.max_iterations
    /\ iteration' = f.iteration
    /\ user_input' = f.user_input
    /\ planner_result' = f.planner_result
    /\ plan' = f.plan
    /\ previous_plan' = f.previous_plan
    /\ task_results' = f.task_results
    /\ final_result' = f.final_result
    /\ sorted_tasks' = f.sorted_tasks
    /\ pos' = f.pos
    /\ results' = f.results
    /\ ret' = f.ret
    /\ log' = f.log
    /\ execute_parallel' = f.execute_parallel

\* The switch when results is an attribute of the router, which the two calls
\* share, instead of a local of execute_plan.
SwitchSharesResults ==
    /\ pc \in Suspended
    /\ other' = Frame
    /\ Resume([other EXCEPT !.results = results])
    /\ running' = IF running = 1 THEN 2 ELSE 1
    /\ UNCHANGED created

\* The event loop leaves the coroutine that runs at its await and resumes the
\* other one: every local of execute and execute_plan goes with its frame.
Switch ==
    /\ pc \in Suspended
    /\ other' = Frame
    /\ Resume(other)
    /\ running' = IF running = 1 THEN 2 ELSE 1
    /\ UNCHANGED created

\* what the two conversations ask, and the plans the planning service answers
TwoInputs == {<<"request a">>, <<"request b">>}
TwoAttrs == Attrs({"weather_agent", "code_agent"}, {0}, {}, 0)
TwoPlans ==
    UNION { { MkPlan(f, g, FALSE) : f \in [1..n -> TwoAttrs], g \in BOOLEAN }
            : n \in {1, 2} }

NextTwo ==
    \/ \E input \in TwoInputs : Execute(input, DefaultDeps, 1)
    \/ LoopHead
    \/ \E p \in TwoPlans : CreatePlanReturns(p)
    \/ \E e \in Errors : CreatePlanFails(e)
    \/ \E out \in Outputs : GreetingReturns(out)
    \/ \E e \in Errors : GreetingFails(e)
    \/ Dispatch
    \/ \E out \in Outputs : TaskReturns(out)
    \/ \E e \in Errors : TaskFails(e)
    \/ Aggregate
    \/ Switch

SpecTwo == Init /\ [][NextTwo]_vars

\* A call of aggregate on an aggregator that may have been called before; the
\* event keeps the arguments and the value of the call.
AggregateRepeat(main_task, rs) ==
    /\ pc \in {"idle", "done"}
    /\ Len(log) < MaxCalls
    /\ entry' = "aggregate"
    /\ task_results' = rs
    /\ final_result' = aggregate(main_task, rs)
    /\ log' = Append(log,
            [ev |-> "aggregate", round |-> iteration, idx |-> -1, exec |-> "",
             text |-> main_task, args |-> rs, value |-> final_result'])
    /\ ret' = Return(final_result')
    /\ pc' = "done"
    /\ UNCHANGED <<deps, max_iterations, iteration, user_input, planner_result, plan,
                   previous_plan, sorted_tasks, pos, results,
                   execute_parallel, created, running, other>>

\* the results one such call is given: none, or one of a weather task
RepeatFields ==
    {"weather_agent"} \X {<<"output a">>} \X BOOLEAN \X {None, Some(<<"timeout">>)}

\* Calls of aggregate, one after the other, on the same aggregator.
NextRepeat ==
    \E main_task \in MainTasks, n \in 0..1 : \E f \in [1..n -> RepeatFields] :
        AggregateRepeat(main_task, MkResults(f))

SpecRepeat == Init /\ [][NextRepeat]_vars

\* format_history_for_context_agent called directly; "not message_history" is
\* true of None and of the empty list alike
FormatCall(arg) ==
    /\ pc = "idle"
    /\ entry' = "format_history"
    /\ ret' = Return(format_history_for_context_agent(
                        IF arg.kind = "None" THEN <<>> ELSE arg.items))
    /\ log' = Append(log, Event("format_history", -1, "", <<arg>>))
    /\ pc' = "done"
    /\ UNCHANGED <<deps, max_iterations, iteration, user_input, planner_result, plan,
                   previous_plan, task_results, final_result, sorted_tasks, pos, results,
                   execute_parallel, created, running, other>>

\* One call of the formatter.
NextFormatter ==
    /\ pc = "idle"
    /\ \/ FormatCall(None)
       \/ \E n \in 0..MaxMessages : \E h \in [1..n -> FormatMessages] :
            FormatCall(HistoryArg(h))

SpecFormatter == Init /\ [][NextFormatter]_vars

\* create_plan called by a client of the planner
CreatePlanCall(input) ==
    /\ pc = "idle"
    /\ entry' = "create_plan"
    /\ user_input' = input
    /\ log' = Append(log, Event("create_plan", -1, "planner", input))
    /\ pc' = "await_planner"
    /\ UNCHANGED <<deps, max_iterations, iteration, planner_result, plan, previous_plan,
                   task_results, final_result, sorted_tasks, pos, results, ret,
                   execute_parallel, created, running, other>>

\* planner.run returned a result whose output is the plan p
PlannerReturns(p) ==
    /\ pc = "await_planner"
    /\ LET result == [kind |-> "AgentRunResult", call |-> 1, output |-> p]
       IN  ret' = Return(create_plan(result.output, result))
    /\ log' = Append(log, Event("planner_returned", -1, "planner", <<p>>))
    /\ pc' = "done"
    /\ UNCHANGED <<entry, deps, max_iterations, iteration, user_input, planner_result,
                   plan, previous_plan, task_results, final_result, sorted_tasks, pos,
                   results, execute_parallel, created, running, other>>

\* planner.run raised: create_plan has no try, the exception reaches the caller
PlannerFails(e) ==
    /\ pc = "await_planner"
    /\ ret' = [kind |-> "raise", exc |-> e]
    /\ log' = Append(log, Event("plan_raised", -1, "planner", e))
    /\ pc' = "done"
    /\ UNCHANGED <<entry, deps, max_iterations, iteration, user_input, planner_result,
                   plan, previous_plan, task_results, final_result, sorted_tasks, pos,
                   results, execute_parallel, created, running, other>>

\* One call of create_plan; the planning service may answer with any plan.
NextPlanner ==
    \/ \E input \in UserInputs : CreatePlanCall(input)
    \/ /\ pc = "await_planner"
       /\ \E n \in 0..MaxTasks : \E f \in [1..n -> DispatchAttrs],
                                     g \in BOOLEAN, r \in BOOLEAN :
            PlannerReturns(MkPlan(f, g, r))
    \/ \E e \in Errors : PlannerFails(e)

SpecPlanner == Init /\ [][NextPlanner]_vars

\* One call of TaskRouter.execute_plan with either value of execute_parallel,
\* on the plans of every priority and in-range dependencies list.
OrderCall ==
    /\ pc = "idle"
    /\ \E n \in 0..MaxTasks : \E f \in [1..n -> OrderAttrs(n)], par \in BOOLEAN :
            ExecutePlanCall(MkPlan(f, FALSE, FALSE), DefaultDeps, par)

NextOrder ==
    \/ OrderCall
    \/ Dispatch
    \/ \E out \in OrderOutputs : TaskReturns(out)
    \/ \E e \in Errors : TaskFails(e)

SpecOrder == Init /\ [][NextOrder]_vars

\* One call of TaskRouter.execute_plan on the plans of every capability, with
\* every deps.
DispatchCall ==
    /\ pc = "idle"
    /\ \E n \in 0..MaxTasks : \E f \in [1..n -> DispatchAttrs], d \in DepsInputs :
            ExecutePlanCall(MkPlan(f, FALSE, FALSE), d, FALSE)

NextDispatch ==
    \/ DispatchCall
    \/ Dispatch
    \/ \E out \in OrderOutputs : TaskReturns(out)
    \/ \E e \in Errors : TaskFails(e)

SpecDispatch == Init /\ [][NextDispatch]_vars

\* One call of TaskRouter.execute_plan with a plan whose dependencies lists
\* may repeat an index.
DupCall ==
    /\ pc = "idle"
    /\ \E n \in 0..(MaxTasks + 1) : \E f \in [1..n -> DupAttrs(n)] :
            ExecutePlanCall(MkPlan(f, FALSE, FALSE), DefaultDeps, FALSE)

NextDup ==
    \/ DupCall
    \/ Dispatch
    \/ \E out \in Outputs : TaskReturns(out)
    \/ \E e \in Errors : TaskFails(e)

SpecDup == Init /\ [][NextDup]_vars

\* ResultAggregator.aggregate called by a client of the aggregator
AggregateCall(main_task, rs) ==
    /\ pc = "idle"
    /\ UNCHANGED <<execute_parallel, created, running, other>>
    /\ entry' = "aggregate"
    /\ task_results' = rs
    /\ final_result' = aggregate(main_task, rs)
    /\ log' = Append(log, Event("aggregate", -1, "", main_task))
    /\ ret' = Return(final_result')
    /\ pc' = "done"
    /\ UNCHANGED <<deps, max_iterations, iteration, user_input, planner_result, plan,
                   previous_plan, sorted_tasks, pos, results>>

\* One call of ResultAggregator.aggregate.
NextAggregator ==
    /\ pc = "idle"
    /\ \E main_task \in MainTasks, n \in 0..MaxResults :
        \E f \in [1..n -> ResultFields] : AggregateCall(main_task, MkResults(f))

SpecAggregator == Init /\ [][NextAggregator]_vars

-----------------------------------------------------------------------------
\* Vocabulary of the properties.

\* a dependencies list with every index kept once, at its first place
RECURSIVE Dedup(_)
Dedup(s) ==
    IF s = <<>> THEN <<>>
    ELSE LET d == Dedup(SubSeq(s, 1, Len(s) - 1))
             last == s[Len(s)]
         IN  IF \E k \in DOMAIN d : d[k] = last THEN d ELSE Append(d, last)

HasDuplicates(p) ==
    \E i \in DOMAIN p.subtasks :
        Dedup(p.subtasks[i].dependencies) # p.subtasks[i].dependencies

\* the plan with the duplicates removed
WithoutDuplicates(p) ==
    [p EXCEPT !.subtasks =
        [i \in DOMAIN p.subtasks |->
            [p.subtasks[i] EXCEPT !.dependencies = Dedup(@)]]]

\* text t has the tokens of s, in a row
Contains(t, s) == \E i \in 0..(Len(t) - Len(s)) : SubSeq(t, i + 1, i + Len(s)) = s

\* the last part of an aggregated text: from its last summary marker on
SummaryLine(t) ==
    LET marks == {k \in DOMAIN t :
                    t[k] \in {"\n---\n**Summary**: ", "\n---\n**Summary**: all "}}
    IN  IF marks = {} THEN <<>>
        ELSE SubSeq(t, CHOOSE k \in marks : \A j \in marks : j <= k, Len(t))

\* aggregate has just returned final_result for (Aggregated.main_task, task_results)
AggregateReturned == Len(log) > 0 /\ log[Len(log)].ev = "aggregate"
Succeeded(rs) == {i \in DOMAIN rs : rs[i].success}
Failed(rs) == {i \in DOMAIN rs : ~rs[i].success}

NumTasks(p) == Len(p.subtasks)
Indices(p) == 0..(NumTasks(p) - 1)

DepsOf(p, i) ==
    {p.subtasks[i + 1].dependencies[k] : k \in DOMAIN p.subtasks[i + 1].dependencies}

\* every dependency names another task of the plan
IndexValid(p) == \A i \in Indices(p) : DepsOf(p, i) \subseteq (Indices(p) \ {i})

RECURSIVE ReachFrom(_, _, _)
ReachFrom(p, S, k) ==
    IF k = 0 THEN S
    ELSE ReachFrom(p, S \cup UNION {DepsOf(p, j) : j \in S \cap Indices(p)}, k - 1)

Ancestors(p, i) == ReachFrom(p, DepsOf(p, i), NumTasks(p))

Acyclic(p) == \A i \in Indices(p) : i \notin Ancestors(p, i)

\* the topological order of section 4.2: among the ready tasks, the highest
\* priority first, then the lowest original index
RECURSIVE Topo(_, _)
Topo(p, order) ==
    LET emitted == {order[k] : k \in DOMAIN order}
        ready == {i \in Indices(p) \ emitted : DepsOf(p, i) \subseteq emitted}
    IN  IF ready = {} THEN order
        ELSE LET best == CHOOSE i \in ready : \A j \in ready \ {i} :
                            \/ p.subtasks[i + 1].priority > p.subtasks[j + 1].priority
                            \/ /\ p.subtasks[i + 1].priority = p.subtasks[j + 1].priority
                               /\ i < j
             IN  Topo(p, Append(order, best))

EventsOf(kinds) == {k \in DOMAIN log : log[k].ev \in kinds}
EventsInRound(kinds, r) == {k \in EventsOf(kinds) : log[k].round = r}

\* the indices of the recorded results, in order
ResultIdx(rs) == [k \in DOMAIN rs |-> rs[k].idx]
HasResult(rs, i) == \E k \in DOMAIN rs : rs[k].idx = i

\* the dispatch text of the task cannot be built: deps has no message_history
HistoryMissing(task) ==
    task.assigned_agent = "context_agent" /\ ~deps.has_message_history

RouterReturned == entry = "execute_plan" /\ pc = "done"
ExecuteReturned == entry = "execute" /\ pc = "done"
LastEvent == log[Len(log)]

\* neither task is reached from the other along the dependencies
Unrelated(p, i, j) == i \notin Ancestors(p, j) /\ j \notin Ancestors(p, i)

\* a result list put back into the order of the original indices
SortedBack(rs) ==
    [i \in 1..Len(rs) |-> rs[CHOOSE k \in DOMAIN rs : rs[k].idx = i - 1]]

\* the outcome the executor of task i had, as the TaskResult it stands for
OutcomeOf(i) ==
    LET k == CHOOSE k \in EventsOf({"returned", "raised"}) : log[k].idx = i
    IN  IF log[k].ev = "returned"
        THEN [idx |-> i, task |-> TaskAt(i), result |-> log[k].text,
              agent_type |-> TaskAt(i).assigned_agent, success |-> TRUE, error |-> None]
        ELSE [idx |-> i, task |-> TaskAt(i), result |-> <<>>,
              agent_type |-> TaskAt(i).assigned_agent, success |-> FALSE,
              error |-> Some(<<"Task execution failed: ">> \o log[k].text)]

-----------------------------------------------------------------------------
\* C1: for a plan whose dependency graph is acyclic and index-valid, when the
\* executor of a task is started every task in its dependencies already has a
\* TaskResult.
C1_CausalOrder ==
    (pc = "await_task" /\ IndexValid(plan) /\ Acyclic(plan))
        => \A d \in DepsOf(plan, sorted_tasks[pos]) : HasResult(results, d)

\* C2: execute_plan on a non-greeting plan with n subtasks returns n
\* TaskResults, one for each subtask (the result list is a permutation of the
\* subtasks), in the order in which the tasks were run.
C2_OneResultPerTask ==
    (RouterReturned /\ ~plan.is_greeting)
        => /\ ret.kind = "return"
           /\ Len(ret.value) = NumTasks(plan)
           /\ \A i \in Indices(plan) :
                Cardinality({k \in DOMAIN ret.value : ret.value[k].idx = i}) = 1
           /\ \A k \in DOMAIN ret.value :
                /\ ret.value[k].idx \in Indices(plan)
                /\ ret.value[k].task = TaskAt(ret.value[k].idx)
                /\ ret.value[k].idx = sorted_tasks[k]
           /\ \A a, b \in EventsOf({"run"}) :
                a < b => \E ka, kb \in DOMAIN ret.value :
                            /\ ka < kb
                            /\ ret.value[ka].idx = log[a].idx
                            /\ ret.value[kb].idx = log[b].idx

C2_Witness ==
    /\ RouterReturned
    /\ NumTasks(plan) = 2
    /\ Len(ret.value) = 2
    /\ ResultIdx(ret.value) = <<1, 0>>
    /\ ~ret.value[1].success
    /\ ret.value[2].success

\* C3: the run order of an acyclic, index-valid plan is its topological order
\* with ties among the ready tasks broken by descending priority, then by
\* ascending original index.
C3_TopologicalOrder ==
    (RouterReturned /\ ~plan.is_greeting /\ IndexValid(plan) /\ Acyclic(plan))
        => ResultIdx(ret.value) = Topo(plan, <<>>)

\* C4: for a plan with a subtask that depends on its own index or on an
\* index >= len(subtasks), no executor is invoked.
C4_InvalidIndexRejected ==
    (entry = "execute_plan" /\ ~IndexValid(plan)) => EventsOf({"run"}) = {}

\* C5: for a plan whose dependency relation has a cycle, no executor is invoked.
C5_CycleRejected ==
    (entry = "execute_plan" /\ IndexValid(plan) /\ ~Acyclic(plan))
        => EventsOf({"run"}) = {}

\* C6: when the executor of a task fails, execute_plan does not fail, the
\* failure is recorded as a failed TaskResult, and every other task of the plan,
\* the tasks depending on the failed one included, is still executed (its
\* executor is invoked, as far as its dispatch text can be built) and is in the
\* result set.
C6_FailureIsolation ==
    /\ (entry = "execute_plan") => ret.kind # "raise"
    /\ (entry = "execute_plan")
            => \A k \in EventsOf({"raised"}) : \E r \in DOMAIN results :
                /\ results[r].idx = log[k].idx
                /\ ~results[r].success
                /\ results[r].error = Some(TaskErrorMsg(log[k].text))
    /\ (RouterReturned /\ ~plan.is_greeting)
            => \A i \in Indices(plan) :
                /\ HasResult(ret.value, i)
                /\ \/ \E k \in EventsOf({"run"}) : log[k].idx = i
                   \/ HistoryMissing(TaskAt(i))

C6_Witness ==
    /\ RouterReturned
    /\ NumTasks(plan) = 2
    /\ ResultIdx(ret.value) = <<0, 1>>
    /\ ~ret.value[1].success
    /\ TaskAt(1).dependencies = <<0>>
    /\ ret.value[2].success
    /\ \E k \in EventsOf({"run"}) : log[k].idx = 1

\* C7: one call of execute invokes the planning service at most max_iterations
\* times; with max_iterations = 1 at most once, whatever requires_iteration is.
C7_PlanningCallsBounded ==
    (entry = "execute")
        => /\ Cardinality(EventsOf({"create_plan"})) <= max_iterations
           /\ Cardinality(EventsOf({"create_plan"})) = iteration

C7_Witness ==
    /\ ExecuteReturned
    /\ max_iterations = 1
    /\ plan # None
    /\ plan.requires_iteration
    /\ ~plan.is_greeting
    /\ Cardinality(EventsOf({"create_plan"})) = 1

\* C8: the planning service is called again after round k only if the plan of
\* round k has requires_iteration = true and k < max_iterations: no planning
\* call follows a round whose plan has requires_iteration = false.
C8_ReplanOnlyWhenRequired ==
    [][(/\ Len(log') = Len(log) + 1
        /\ log'[Len(log')].ev = "create_plan"
        /\ iteration >= 1)
            => (/\ plan # None
                /\ plan.requires_iteration
                /\ ~plan.is_greeting
                /\ iteration < max_iterations
                /\ LastEvent.ev = "aggregate"
                /\ LastEvent.round = iteration)]_vars

C8_Witness ==
    /\ pc = "await_plan"
    /\ iteration = 2
    /\ max_iterations = 3
    /\ plan.requires_iteration

\* C9: when the planning service returns a greeting plan, neither execute_plan
\* nor aggregate is invoked in that round, no subtask executor runs, the round
\* loop ends, and the final answer is the output of the General executor for
\* main_task.
C9_Greeting ==
    (entry = "execute" /\ plan # None /\ plan.is_greeting)
        => /\ pc \in {"await_greeting", "done"}
           /\ EventsInRound({"execute_plan", "aggregate", "run"}, iteration) = {}
           /\ \E k \in EventsInRound({"run_greeting"}, iteration) :
                /\ log[k].exec = "general"
                /\ log[k].text = plan.main_task
                /\ EventsInRound({"run_greeting"}, iteration) = {k}
           /\ (pc = "done" /\ LastEvent.ev = "greeting_returned")
                => ret = Return(<<LastEvent.text, planner_result>>)

C9_Witness ==
    /\ ExecuteReturned
    /\ plan # None
    /\ plan.is_greeting
    /\ NumTasks(plan) = 1
    /\ iteration = 2
    /\ LastEvent.ev = "greeting_returned"
    /\ ret.value[1] = <<"output b">>

\* C10: execute never propagates a fault: whatever the planning service, the
\* greeting executor or a task executor raises, the call returns, and its final
\* answer is a string describing the error.
C10_NoFaultPropagates ==
    (entry = "execute")
        => /\ ret.kind # "raise"
           /\ (pc = "done")
                => /\ ret.kind = "return"
                   /\ (max_iterations <= 0) => ret.value[1] = Completed
                   /\ (max_iterations > 0 /\ LastEvent.ev \in {"plan_raised", "greeting_raised"})
                        => ret.value[1] = FlowErrorMsg(LastEvent.text)
                   /\ (max_iterations > 0 /\ LastEvent.ev = "aggregate")
                        => \A k \in EventsInRound({"raised"}, iteration) :
                            \E j \in 1..(Len(ret.value[1]) - 1) :
                                /\ ret.value[1][j] = "Task execution failed: "
                                /\ <<ret.value[1][j + 1]>> = log[k].text

C10_Witness ==
    /\ ExecuteReturned
    /\ iteration = 2
    /\ LastEvent.ev = "plan_raised"
    /\ ret.value[1] = FlowErrorMsg(<<"boom">>)

\* C11: when the planning call of a round fails, the loop ends in that round:
\* the final answer is the planning-flow error text built from the fault, no
\* executor is invoked in that round, and no planning call follows.
C11_PlanningFailureEndsLoop ==
    (entry = "execute")
        => \A k \in EventsOf({"plan_raised"}) :
            /\ k = Len(log)
            /\ pc = "done"
            /\ iteration = log[k].round
            /\ ret = Return(<<FlowErrorMsg(log[k].text), planner_result>>)
            /\ EventsInRound({"run", "run_greeting", "execute_plan", "aggregate"},
                             log[k].round) = {}
            /\ Cardinality(EventsInRound({"create_plan"}, log[k].round)) = 1

C11_Witness ==
    /\ ExecuteReturned
    /\ max_iterations = 3
    /\ iteration = 2
    /\ LastEvent.ev = "plan_raised"
    /\ EventsInRound({"run"}, 1) # {}
    /\ planner_result # None
    /\ planner_result.call = 1

\* C12: when the iteration budget is exhausted (the round max_iterations ran
\* to its aggregation with a plan that still requires iteration), the final
\* answer is the aggregated result of that last round, not the completion
\* placeholder and not an error text; the placeholder is returned only when
\* max_iterations admits no round at all.
C12_BudgetExhausted ==
    /\ (ExecuteReturned /\ max_iterations >= 1 /\ LastEvent.ev = "aggregate")
            => /\ ret.value[1] = aggregate(plan.main_task, task_results)
               /\ ret.value[1] = final_result
               /\ ret.value[1] # Completed
               /\ ret.value[1][1] # "Error in the planning flow: "
               /\ LastEvent.round = iteration
               /\ plan.requires_iteration => iteration = max_iterations
    /\ (ExecuteReturned /\ ret.value[1] = Completed) => max_iterations <= 0

C12_Witness ==
    /\ ExecuteReturned
    /\ max_iterations = 2
    /\ iteration = 2
    /\ plan.requires_iteration
    /\ LastEvent.ev = "aggregate"
    /\ task_results # <<>>
    /\ ret.value[1] = final_result

\* C13: every task that execute_plan handles has its resolved executor invoked,
\* with the task details followed by the formatted conversation history when
\* the task has the Context capability, and with exactly the task details for
\* every other capability.
C13_DispatchText ==
    (entry = "execute_plan")
        => \A r \in DOMAIN results : \E k \in EventsOf({"run"}) :
            LET task == results[r].task
            IN  /\ log[k].idx = results[r].idx
                /\ log[k].text =
                        IF task.assigned_agent = "context_agent"
                        THEN task.task_details \o <<"\n\n", "History:", "\n">>
                                \o format_history_for_context_agent(deps.message_history)
                        ELSE task.task_details

\* C14: executor resolution is total: Code, Weather and Search resolve to
\* their own, pairwise distinct executors; General, Default and a capability
\* without a registry entry (Context) resolve to the General executor.
C14_ResolutionTotal ==
    /\ \A a \in AgentEnum \cup {"unknown_agent"} :
            get_agent_by_type(a) \in {"code", "weather", "search", "general"}
    /\ (entry = "execute_plan")
            => \A k \in EventsOf({"run"}) :
                LET a == TaskAt(log[k].idx).assigned_agent
                IN  /\ a = "code_agent" => log[k].exec = "code"
                    /\ a = "weather_agent" => log[k].exec = "weather"
                    /\ a = "search_agent" => log[k].exec = "search"
                    /\ a \in {"general_agent", "default_agent", "context_agent"}
                            => log[k].exec = get_general_agent

C14_Witness ==
    /\ RouterReturned
    /\ NumTasks(plan) = 2
    /\ TaskAt(0).assigned_agent = "context_agent"
    /\ TaskAt(1).assigned_agent = "weather_agent"
    /\ \E k \in EventsOf({"run"}) : log[k].idx = 0 /\ log[k].exec = "general"
    /\ \E k \in EventsOf({"run"}) : log[k].idx = 1 /\ log[k].exec = "weather"

\* C15: for a plan that is a greeting or has no subtasks, execute_plan returns
\* the empty result list at once: no executor is resolved or invoked.
C15_EmptyOrGreeting ==
    (entry = "execute_plan" /\ (plan.is_greeting \/ plan.subtasks = <<>>))
        => /\ pc = "done"
           /\ ret = Return(<<>>)
           /\ results = <<>>
           /\ sorted_tasks = <<>>
           /\ Len(log) = 1
           /\ log[1].ev = "execute_plan"

C15_Witness ==
    /\ RouterReturned
    /\ plan.is_greeting
    /\ NumTasks(plan) = 1
    /\ ret.value = <<>>
    /\ EventsOf({"run"}) = {}

\* C19: every TaskResult of execute_plan with success = true has no error,
\* and every one with success = false has the empty output and an error text.
C19_TaskResultShape ==
    (entry = "execute_plan")
        => \A r \in DOMAIN results :
            /\ results[r].success => results[r].error = None
            /\ ~results[r].success
                    => /\ results[r].result = <<>>
                       /\ results[r].error # None
                       /\ results[r].error.kind = "str"
                       /\ results[r].error.s # <<>>

C19_Witness ==
    /\ RouterReturned
    /\ Len(ret.value) = 2
    /\ ~ret.value[1].success
    /\ ret.value[1].error = Some(TaskErrorMsg(<<"boom">>))
    /\ ret.value[2].success
    /\ ret.value[2].result = <<"output a">>
    /\ ret.value[2].error = None

\* C16: aggregate(main_task, []) returns the fixed one-line notice that there
\* are no subtasks, which contains main_task.
C16_EmptyNotice ==
    (AggregateReturned /\ task_results = <<>>)
        => /\ final_result =
                <<"Task '">> \o LastEvent.text \o <<"' has no subtasks to execute.">>
           /\ Contains(final_result, LastEvent.text)
           /\ \A k \in DOMAIN final_result : final_result[k] # "\n"
           /\ SummaryLine(final_result) = <<>>

C16_Witness ==
    /\ AggregateReturned
    /\ entry = "aggregate"
    /\ task_results = <<>>
    /\ LastEvent.text = <<"weather", " and ", "script">>
    /\ ret.value = <<"Task '", "weather", " and ", "script", "' has no subtasks to execute.">>

\* C17 (as stated): for every non-empty result list the aggregated text has
\* the output of every successful result and ends with a summary line that
\* names the total, the succeeded count and the failed count.
C17_SummaryCounts ==
    (AggregateReturned /\ task_results # <<>>)
        => LET summary == SummaryLine(final_result)
               numbers == {summary[k] : k \in DOMAIN summary}
           IN  /\ \A i \in Succeeded(task_results) :
                    Contains(final_result, task_results[i].result)
               /\ summary # <<>>
               /\ ToString(Len(task_results)) \in numbers
               /\ ToString(Cardinality(Succeeded(task_results))) \in numbers
               /\ ToString(Cardinality(Failed(task_results))) \in numbers

\* C17 (amended): for every non-empty result list the aggregated text has the
\* output of every successful result and ends with a summary line; the line
\* reports the total, the succeeded count and the failed count when a result
\* failed, and only that all <total> subtasks succeeded when none failed.
C17_SummaryByOutcome ==
    (AggregateReturned /\ task_results # <<>>)
        => LET summary == SummaryLine(final_result)
               total == Len(task_results)
               succeeded == Cardinality(Succeeded(task_results))
               failed == Cardinality(Failed(task_results))
           IN  /\ \A i \in Succeeded(task_results) :
                    Contains(final_result, task_results[i].result \o <<"\n">>)
               /\ summary # <<>>
               /\ succeeded + failed = total
               /\ failed > 0
                    => summary = <<"\n---\n**Summary**: ", ToString(total), " subtasks, ",
                                  ToString(succeeded), " succeeded, ",
                                  ToString(failed), " failed.">>
               /\ failed = 0
                    => summary = <<"\n---\n**Summary**: all ", ToString(total),
                                  " subtasks succeeded.">>

C17_Witness ==
    /\ AggregateReturned
    /\ entry = "aggregate"
    /\ Len(task_results) = 2
    /\ Failed(task_results) = {}
    /\ task_results[1].result = <<"output a">>
    /\ SummaryLine(final_result) = <<"\n---\n**Summary**: all ", "2", " subtasks succeeded.">>

\* C18: for every result list with a failed result, the aggregated text has
\* the details of the failed task, the text of its error, and a summary that
\* reports the number of failed tasks.
C18_FailureReported ==
    (AggregateReturned /\ Failed(task_results) # {})
        => /\ \A i \in Failed(task_results) :
                /\ Contains(final_result, task_results[i].task.task_details)
                /\ task_results[i].error # None
                        => Contains(final_result, task_results[i].error.s)
                /\ (task_results[i].error # None /\ task_results[i].error.s # <<>>)
                        => Contains(final_result,
                                <<"[x] failed", "\n", "Error: ">> \o task_results[i].error.s)
           /\ Contains(SummaryLine(final_result),
                    <<ToString(Cardinality(Failed(task_results))), " failed.">>)

C18_Witness ==
    /\ AggregateReturned
    /\ entry = "aggregate"
    /\ Len(task_results) = 1
    /\ ~task_results[1].success
    /\ task_results[1].error = Some(<<"timeout">>)
    /\ Contains(final_result, <<"task 0">>)
    /\ Contains(final_result, <<"timeout">>)
    /\ Contains(SummaryLine(final_result), <<"1", " failed.">>)

\* C20: repeated dependency indices make no difference: an acyclic,
\* index-valid plan in which a task lists an index more than once is run in
\* the order of the plan with the duplicates removed.
C20_DuplicatesIgnored ==
    (RouterReturned /\ IndexValid(plan) /\ Acyclic(plan) /\ HasDuplicates(plan))
        => ResultIdx(ret.value) = sort_tasks(WithoutDuplicates(plan).subtasks)

\* C21: of two tasks with no dependency relationship between them, the one
\* with the higher priority starts first: no executor of a lower-priority task
\* is started before that of an unrelated higher-priority task.
C21_PriorityOrder ==
    (entry = "execute_plan")
        => /\ \A a, b \in EventsOf({"run"}) :
                (a < b /\ TaskAt(log[a].idx).priority < TaskAt(log[b].idx).priority)
                    => ~Unrelated(plan, log[a].idx, log[b].idx)
           /\ (pc = "await_task")
                => \A j \in Indices(plan) :
                    (/\ TaskAt(j).priority > TaskAt(sorted_tasks[pos]).priority
                     /\ \A k \in EventsOf({"run"}) : log[k].idx # j)
                        => ~Unrelated(plan, j, sorted_tasks[pos])

C21_Witness ==
    /\ RouterReturned
    /\ NumTasks(plan) = 2
    /\ TaskAt(0).priority = 0
    /\ TaskAt(1).priority = 1
    /\ TaskAt(0).dependencies = <<>>
    /\ TaskAt(1).dependencies = <<>>
    /\ \E a, b \in EventsOf({"run"}) : a < b /\ log[a].idx = 1 /\ log[b].idx = 0

\* C22: execute_plan does not change the plan it is given: from the call on,
\* and after the return with or without failed tasks, plan.subtasks is the
\* list that was passed, task for task and in the original order, and every
\* TaskResult carries its task unchanged.
C22_PlanNotMutated ==
    (entry = "execute_plan")
        => /\ plan.subtasks = log[1].text
           /\ \A r \in DOMAIN results : results[r].task = log[1].text[results[r].idx + 1]

C22_Witness ==
    /\ RouterReturned
    /\ NumTasks(plan) = 2
    /\ ResultIdx(ret.value) = <<1, 0>>
    /\ ~ret.value[2].success
    /\ plan.subtasks = log[1].text
    /\ plan.subtasks[1].priority = 0
    /\ plan.subtasks[2].priority = 1
    /\ plan.subtasks[1].dependencies = <<1>>

\* C24: the TaskResults of a plan do not depend on execute_parallel: with
\* either value the returned collection, put back into original index order,
\* has for every task the TaskResult of the outcome its executor had.
C24_ParallelFlagIrrelevant ==
    (RouterReturned /\ ~plan.is_greeting)
        => \A par \in BOOLEAN :
            (execute_parallel = par)
                => /\ Len(ret.value) = NumTasks(plan)
                   /\ SortedBack(ret.value) = [i \in 1..NumTasks(plan) |-> OutcomeOf(i - 1)]
                   /\ ResultIdx(ret.value) = sort_tasks(plan.subtasks)

C24_Witness ==
    /\ RouterReturned
    /\ execute_parallel
    /\ NumTasks(plan) = 2
    /\ ResultIdx(ret.value) = <<1, 0>>
    /\ ret.value[1].success
    /\ ~ret.value[2].success

\* C23: when the orchestrator iterates, the input of the planning call of
\* round k+1 is the input of round k followed by the aggregated result of
\* round k; so it begins with the original user input and carries the results
\* of all the rounds 1..k.
C23_IterationInput ==
    (entry = "execute")
        => /\ \A a, b \in EventsOf({"create_plan"}) :
                (log[b].round = log[a].round + 1)
                    => /\ Len(log[b].text) > Len(log[a].text) + 4
                       /\ SubSeq(log[b].text, 1, Len(log[a].text)) = log[a].text
                       /\ SubSeq(log[b].text, Len(log[a].text) + 1, Len(log[a].text) + 2)
                            = <<"\n\n", "Current result: ">>
           /\ \A b \in EventsOf({"create_plan"}) :
                /\ SubSeq(log[b].text, 1, Len(log[1].text)) = log[1].text
                /\ Cardinality({j \in DOMAIN log[b].text : log[b].text[j] = "Current result: "})
                        = log[b].round - 1
           /\ (pc = "await_plan" /\ iteration >= 2)
                => \E a \in EventsInRound({"create_plan"}, iteration - 1) :
                    /\ final_result = aggregate(plan.main_task, task_results)
                    /\ LastEvent.text =
                            log[a].text \o <<"\n\n", "Current result: ">> \o final_result
                                \o <<"\n", "Please adjust the plan accordingly.">>
                    /\ user_input = LastEvent.text

C23_Witness ==
    /\ entry = "execute"
    /\ pc = "await_plan"
    /\ iteration = 3
    /\ log[1].text = <<"request">>
    /\ Contains(LastEvent.text, <<"output a", "\n">>)
    /\ Cardinality({j \in DOMAIN LastEvent.text : LastEvent.text[j] = "Current result: "}) = 2

\* C26: the registry is read-only at run time: an agent is created at most
\* once, namely when its capability is resolved for the first time, every
\* later resolution returns that agent, and the calls for one capability all
\* go to the same executor.
C26_RegistryReadOnly ==
    (entry = "execute_plan")
        => LET resolved ==
                    {log[k].exec : k \in EventsOf({"run"})}
                        \cup {get_general_agent : r \in
                                {r \in DOMAIN results : HistoryMissing(results[r].task)}}
           IN  /\ \A a \in Executors : created[a] = IF a \in resolved THEN 1 ELSE 0
               /\ \A a, b \in EventsOf({"run"}) :
                    TaskAt(log[a].idx).assigned_agent = TaskAt(log[b].idx).assigned_agent
                        => log[a].exec = log[b].exec

C26_Witness ==
    /\ RouterReturned
    /\ NumTasks(plan) = 2
    /\ TaskAt(0).assigned_agent = "code_agent"
    /\ TaskAt(1).assigned_agent = "code_agent"
    /\ Cardinality(EventsOf({"run"})) = 2
    /\ created["code"] = 1
    /\ created["general"] = 0

C29_ReturnsPlan ==
    (entry = "create_plan" /\ pc = "done" /\ ret.kind = "return")
        => /\ {"main_task", "is_greeting", "subtasks"} \subseteq DOMAIN ret.value
           /\ ret.value = LastEvent.text[1]

\* C30: the formatter returns one and the same fixed placeholder when the
\* history is absent and when it is empty, and never that placeholder when
\* the history has a user turn, which is then shown as a numbered turn.
C30_Placeholder ==
    (entry = "format_history" /\ pc = "done")
        => LET arg == LastEvent.text[1]
               empty == arg.kind = "None" \/ arg.items = <<>>
               user_turn ==
                    /\ arg.kind = "list"
                    /\ \E m \in DOMAIN arg.items : \E k \in DOMAIN arg.items[m] :
                            arg.items[m][k].kind = "user"
           IN  /\ empty => ret.value = <<"No history yet.">>
               /\ user_turn
                    => /\ ret.value # <<"No history yet.">>
                       /\ SubSeq(ret.value, 1, 3) = <<"Turn ", "1", ":">>
                       /\ Contains(ret.value, <<"User: ", "hello">>)

C30_Witness ==
    /\ entry = "format_history"
    /\ pc = "done"
    /\ LastEvent.text[1].kind = "list"
    /\ Len(LastEvent.text[1].items) = 2
    /\ LastEvent.text[1].items[1] = <<Part("system", "be helpful", 10)>>
    /\ LastEvent.text[1].items[2] = <<Part("user", "hello", 5)>>
    /\ ret.value # <<"No history yet.">>
    /\ Contains(ret.value, <<"Turn ", "1", ":">>)

FrameOf(c) == IF running = c THEN Frame ELSE other

\* the TaskResults that the outcomes in the history of frame f stand for
FrameResults(f) ==
    LET ks == SelectSeq([k \in DOMAIN f.log |-> k],
                        LAMBDA k : f.log[k].ev \in {"returned", "raised"})
    IN  [j \in DOMAIN ks |->
            LET e == f.log[ks[j]]
                t == f.plan.subtasks[e.idx + 1]
            IN  IF e.ev = "returned"
                THEN TaskResult(e.idx, t, e.text, TRUE, None)
                ELSE TaskResult(e.idx, t, <<>>, FALSE, Some(TaskErrorMsg(e.text)))]

\* frame f is what a call running alone has after the calls and outcomes of
\* the history of f
RanAlone(f) ==
    /\ \A k \in DOMAIN f.log :
            /\ f.log[k].ev = "create_plan" => f.log[k].text = f.user_input
            /\ f.log[k].ev = "execute_plan" => f.log[k].text = f.plan.subtasks
            /\ f.log[k].ev = "run"
                    => f.log[k].text = f.plan.subtasks[f.log[k].idx + 1].task_details
            /\ f.log[k].ev = "run_greeting" => f.log[k].text = f.plan.main_task
    /\ IF \E k \in DOMAIN f.log : f.log[k].ev = "execute_plan"
       THEN f.results = FrameResults(f)
       ELSE f.results = <<>>
    /\ (f.pc = "done" /\ f.ret.kind = "return" /\ f.log[Len(f.log)].ev = "aggregate")
            => /\ f.task_results = FrameResults(f)
               /\ Len(f.task_results) = Len(f.plan.subtasks)
               /\ f.ret.value[1] = aggregate(f.plan.main_task, FrameResults(f))
    /\ (f.pc = "done" /\ f.log[Len(f.log)].ev = "greeting_returned")
            => f.ret.value[1] = f.log[Len(f.log)].text

\* C25: two calls of execute that interleave at their awaits do not see one
\* another: the plan, the TaskResults and the answer of each are the ones its
\* own calls and outcomes give, as if it ran alone.
C25_Isolated ==
    (entry = "execute" \/ other.entry = "execute")
        => RanAlone(FrameOf(1)) /\ RanAlone(FrameOf(2))

\* both calls are in the middle of their plans, with different plans and
\* different outcomes so far
C25_Witness ==
    /\ pc = "await_task"
    /\ other.pc = "await_task"
    /\ Len(results) = 1
    /\ Len(other.results) = 1
    /\ results[1].success
    /\ ~other.results[1].success
    /\ plan # other.plan
    /\ user_input # other.user_input

\* the TaskResults that the outcomes of round r stand for, in the order of the
\* outcomes
RoundResults(r) ==
    LET ks == SelectSeq([k \in DOMAIN log |-> k],
                        LAMBDA k : log[k].ev \in {"returned", "raised"}
                                       /\ log[k].round = r)
    IN  [j \in DOMAIN ks |->
            LET e == log[ks[j]]
            IN  IF e.ev = "returned"
                THEN TaskResult(e.idx, TaskAt(e.idx), e.text, TRUE, None)
                ELSE TaskResult(e.idx, TaskAt(e.idx), <<>>, FALSE,
                                Some(TaskErrorMsg(e.text)))]

\* the one event of the kind in round r
TheEvent(kind, r) == CHOOSE k \in EventsInRound({kind}, r) : TRUE

\* C31: a round that reaches its aggregation made exactly one planning call,
\* then exactly one execute_plan run, then exactly one aggregate call, in this
\* order, with every executor call of the round between the last two; and the
\* TaskResults given to aggregate are the ones of the outcomes of this round's
\* run, none of an earlier round.
C31_RoundSequence ==
    (entry = "execute")
        => /\ \A r \in 1..iteration :
                (EventsInRound({"aggregate"}, r) # {})
                    => /\ Cardinality(EventsInRound({"create_plan"}, r)) = 1
                       /\ Cardinality(EventsInRound({"execute_plan"}, r)) = 1
                       /\ Cardinality(EventsInRound({"aggregate"}, r)) = 1
                       /\ EventsInRound({"run_greeting"}, r) = {}
                       /\ TheEvent("create_plan", r) < TheEvent("execute_plan", r)
                       /\ TheEvent("execute_plan", r) < TheEvent("aggregate", r)
                       /\ \A k \in EventsInRound({"run", "returned", "raised"}, r) :
                            /\ TheEvent("execute_plan", r) < k
                            /\ k < TheEvent("aggregate", r)
           /\ (log # <<>> /\ LastEvent.ev = "aggregate")
                => /\ task_results = RoundResults(LastEvent.round)
                   /\ Len(task_results) = NumTasks(plan)
                   /\ final_result = aggregate(plan.main_task, RoundResults(LastEvent.round))

C31_Witness ==
    /\ ExecuteReturned
    /\ iteration = 2
    /\ LastEvent.ev = "aggregate"
    /\ Len(task_results) = 1
    /\ task_results[1].success
    /\ \E k \in EventsInRound({"raised"}, 1) : TRUE
    /\ EventsInRound({"aggregate"}, 1) # {}

\* C32: one execute_plan run has at most one executor call in flight: every
\* executor call but the last is directly followed by its own outcome, whose
\* TaskResult is in the collection before the next executor is started, and
\* the last call is either finished too or the one the run waits for.
C32_OneInFlight ==
    (entry = "execute_plan")
        => /\ \A k \in EventsOf({"run"}) :
                IF k = Len(log)
                THEN /\ pc = "await_task"
                     /\ log[k].idx = sorted_tasks[pos]
                     /\ Len(results) = pos - 1
                ELSE /\ log[k + 1].ev \in {"returned", "raised"}
                     /\ log[k + 1].idx = log[k].idx
                     /\ HasResult(results, log[k].idx)
           /\ Cardinality(EventsOf({"run"}))
                - Cardinality(EventsOf({"returned", "raised"}))
                    = IF pc = "await_task" THEN 1 ELSE 0

C32_Witness ==
    /\ entry = "execute_plan"
    /\ pc = "await_task"
    /\ NumTasks(plan) = 2
    /\ pos = 2
    /\ Len(results) = 1
    /\ Cardinality(EventsOf({"run"})) = 2
    /\ Cardinality(EventsOf({"returned", "raised"})) = 1

\* the places of the block headings in an aggregated text, in ascending order
Headings(t) ==
    SelectSeq([k \in DOMAIN t |-> k], LAMBDA k : t[k] = "### ")

\* the text of the block of result r when it is the i-th
Block(r, i) ==
    <<"### ", ToString(i), ". [", AgentTitle(r.agent_type), "] ">>
        \o r.task.task_details \o <<"\n">>
        \o (IF r.success
            THEN <<"[ok] executed", "\n">> \o r.result \o <<"\n">>
            ELSE IF r.error # None /\ r.error.s # <<>>
                 THEN <<"[x] failed", "\n", "Error: ">> \o r.error.s \o <<"\n">>
                 ELSE <<"[x] failed", "\n", "\n">>)

\* C33: for a non-empty result list the aggregated text has one block for
\* each result, in the order of the list: the i-th block is numbered i, names
\* the capability and the details of the i-th result and goes on with its
\* output when it succeeded and with its error message when it failed; there
\* are as many blocks as results.
C33_BlocksInOrder ==
    (AggregateReturned /\ entry = "aggregate" /\ task_results # <<>>)
        => LET hs == Headings(final_result)
           IN  /\ Len(hs) = Len(task_results)
               /\ \A i \in DOMAIN task_results :
                    LET b == Block(task_results[i], i)
                    IN  /\ hs[i] + Len(b) - 1 <= Len(final_result)
                        /\ SubSeq(final_result, hs[i], hs[i] + Len(b) - 1) = b
                        /\ i < Len(hs) => hs[i] + Len(b) <= hs[i + 1]

C33_Witness ==
    /\ AggregateReturned
    /\ entry = "aggregate"
    /\ Len(task_results) = 2
    /\ task_results[1].agent_type = "weather_agent"
    /\ ~task_results[1].success
    /\ task_results[1].error = Some(<<"timeout">>)
    /\ task_results[2].agent_type = "code_agent"
    /\ task_results[2].success
    /\ task_results[2].result = <<"output a">>
    /\ Len(Headings(final_result)) = 2
    /\ final_result[Headings(final_result)[1] + 3] = "Weather Agent"
    /\ final_result[Headings(final_result)[2] + 3] = "Code Agent"
    /\ Contains(SubSeq(final_result, 1, Headings(final_result)[2]), <<"Error: ", "timeout">>)
    /\ Contains(SubSeq(final_result, Headings(final_result)[2], Len(final_result)),
                <<"output a">>)

\* the subtasks of the plan that the execute_plan run of round r was given
SubtasksOfRound(r) == log[TheEvent("execute_plan", r)].text

\* no round goes past the budget, and an execute_plan run makes no more task
\* attempts than its plan has subtasks, and exactly that many once it returned
AttemptsBounded ==
    (entry = "execute")
        => /\ iteration <= max_iterations
           /\ \A r \in 1..iteration :
                (EventsInRound({"execute_plan"}, r) # {})
                    => /\ Cardinality(EventsInRound({"run"}, r))
                            <= Len(SubtasksOfRound(r))
                       /\ Cardinality(EventsInRound({"returned", "raised"}, r))
                            <= Cardinality(EventsInRound({"run"}, r))
                       /\ (EventsInRound({"aggregate"}, r) # {})
                            => Cardinality(EventsInRound({"run"}, r))
                                    = Len(SubtasksOfRound(r))

\* C34: when every awaited call returns or raises, a call of execute with
\* max_iterations >= 1 ends, after at least one and at most max_iterations
\* rounds; and an execute_plan run makes no more task attempts than the plan
\* has subtasks, and exactly that many when it has returned.
C34_Terminates ==
    /\ []AttemptsBounded
    /\ (entry = "execute" /\ max_iterations >= 1)
            ~> (pc = "done" /\ iteration >= 1 /\ iteration <= max_iterations)

C34_Witness ==
    /\ ExecuteReturned
    /\ max_iterations = 3
    /\ iteration = 3
    /\ LastEvent.ev = "aggregate"
    /\ plan.requires_iteration
    /\ Len(SubtasksOfRound(3)) = 1
    /\ Cardinality(EventsInRound({"run"}, 3)) = 1
    /\ Cardinality(EventsInRound({"raised"}, 2)) = 1

\* the rounds whose planning call returned a plan: the round went on to the
\* greeting or to execute_plan
PlannedRounds ==
    {r \in 1..iteration : EventsInRound({"execute_plan", "run_greeting"}, r) # {}}

\* C35: the trace that execute returns is the run result of the last planning
\* call that returned during this call, and None exactly when none returned;
\* so a planning call that fails in round k >= 2 gives the error text together
\* with the trace of round k - 1.
C35_TraceOfLastPlanning ==
    ExecuteReturned
        => /\ (PlannedRounds = {}) <=> (ret.value[2] = None)
           /\ (PlannedRounds # {})
                => ret.value[2] =
                    [kind |-> "AgentRunResult",
                     call |-> CHOOSE r \in PlannedRounds : \A q \in PlannedRounds : q <= r]
           /\ (iteration >= 2 /\ LastEvent.ev = "plan_raised")
                => /\ ret.value[1] = FlowErrorMsg(LastEvent.text)
                   /\ ret.value[2].call = iteration - 1

C35_Witness ==
    /\ ExecuteReturned
    /\ max_iterations = 2
    /\ iteration = 2
    /\ LastEvent.ev = "plan_raised"
    /\ PlannedRounds = {1}
    /\ ret.value[2] = [kind |-> "AgentRunResult", call |-> 1]
    /\ ret.value[1] = FlowErrorMsg(<<"boom">>)

\* C36: when a call fails in a round k >= 2, the answer is the error text of
\* that fault and nothing else: the text aggregated in the rounds before,
\* which the call still holds, is not in what the caller gets.
C36_EarlierResultsDropped ==
    (ExecuteReturned /\ iteration >= 2
        /\ LastEvent.ev \in {"plan_raised", "greeting_raised"})
        => /\ ret.value[1] = <<"Error in the planning flow: ">> \o LastEvent.text
           /\ EventsInRound({"aggregate"}, iteration - 1) # {}
           /\ final_result # <<>>
           /\ final_result = aggregate(previous_plan.main_task, task_results)
           /\ ~Contains(ret.value[1], final_result)
           /\ \A k \in DOMAIN ret.value[1] :
                ret.value[1][k] \notin {"## Task: ", "Task '", "### "}

C36_Witness ==
    /\ ExecuteReturned
    /\ iteration = 2
    /\ LastEvent.ev = "greeting_raised"
    /\ Len(task_results) = 1
    /\ task_results[1].success
    /\ Contains(final_result, task_results[1].result)
    /\ ret.value[1] = <<"Error in the planning flow: ", "boom">>

SortReturned == entry = "_sort_tasks" /\ pc = "done"
SortedList == LastEvent.text
RunOrder == ret.value

\* the place of task i in the run order
PlaceOf(order, i) == CHOOSE k \in DOMAIN order : order[k] = i

\* C38: the run order of _sort_tasks is the stable sort by priority
\* descending, then number of dependency entries ascending: it holds every
\* task once, and of two neighbours the first has the higher priority, or the
\* same priority and fewer entries, or the same of both and the earlier place
\* in the list given.
C38_StableSort ==
    SortReturned
        => LET tasks == SortedList
               order == RunOrder
               n == Len(tasks)
           IN  /\ Len(order) = n
               /\ {order[k] : k \in 1..n} = 0..(n - 1)
               /\ \A k \in 1..(n - 1) :
                    LET a == tasks[order[k] + 1]
                        b == tasks[order[k + 1] + 1]
                    IN  \/ a.priority > b.priority
                        \/ /\ a.priority = b.priority
                           /\ Len(a.dependencies) < Len(b.dependencies)
                        \/ /\ a.priority = b.priority
                           /\ Len(a.dependencies) = Len(b.dependencies)
                           /\ order[k] < order[k + 1]

C38_Witness ==
    /\ SortReturned
    /\ Len(SortedList) = 3
    /\ \A i \in 1..3 : SortedList[i].priority = 0
    /\ Len(SortedList[1].dependencies) = 1
    /\ Len(SortedList[2].dependencies) = 0
    /\ Len(SortedList[3].dependencies) = 1
    /\ RunOrder = <<1, 0, 2>>

\* every dependencies list holds the dependencies of each of its entries
Closed(p) ==
    \A i \in Indices(p) : \A j \in DepsOf(p, i) \cap Indices(p) :
        DepsOf(p, j) \subseteq DepsOf(p, i)

\* C39: when all the subtasks have the same priority, no dependencies list
\* repeats an index, and every list is transitively closed and acyclic, the
\* run order of _sort_tasks has every task after all of its dependencies.
C39_ClosedListsOrdered ==
    LET p == [subtasks |-> SortedList]
    IN  (/\ SortReturned
         /\ \A i, j \in DOMAIN p.subtasks : p.subtasks[i].priority = p.subtasks[j].priority
         /\ ~HasDuplicates(p)
         /\ Closed(p)
         /\ Acyclic(p))
            => \A i \in Indices(p) : \A j \in DepsOf(p, i) \cap Indices(p) :
                    PlaceOf(RunOrder, j) < PlaceOf(RunOrder, i)

C39_Witness ==
    /\ SortReturned
    /\ Len(SortedList) = 3
    /\ SortedList[1].dependencies = <<1, 2>>
    /\ SortedList[2].dependencies = <<2>>
    /\ SortedList[3].dependencies = <<>>
    /\ RunOrder = <<2, 1, 0>>

\* C40: every TaskResult of execute_plan has as agent_type the capability
\* assigned to its task in the plan, not that of the executor that ran it:
\* also when the executor resolved was the general one standing in (Default,
\* or Context, which has no registry entry), and also when the task failed.
C40_AgentTypeAssigned ==
    (entry = "execute_plan")
        => \A r \in DOMAIN results :
            LET i == results[r].idx
            IN  /\ results[r].agent_type = log[1].text[i + 1].assigned_agent
                /\ results[r].agent_type = results[r].task.assigned_agent
                /\ \A k \in EventsOf({"run"}) :
                        (log[k].idx = i)
                            => log[k].exec = get_agent_by_type(results[r].agent_type)

C40_Witness ==
    /\ RouterReturned
    /\ Len(ret.value) = 2
    /\ ret.value[1].agent_type = "default_agent"
    /\ ~ret.value[1].success
    /\ ret.value[2].agent_type = "context_agent"
    /\ ret.value[2].success
    /\ \A k \in EventsOf({"run"}) : log[k].exec = "general"
    /\ Cardinality(EventsOf({"run"})) = 2

====
